---- MODULE Spec2Model ----
(***************************************************************************)
(* Model of the MIR explorer (mir-explorer/src): the controller            *)
(* MirExplorer (app.rs), the layout engine GraphLayout (layout.rs), the    *)
(* key mapper parse_key (input.rs) and the inputs the renderer is handed   *)
(* (render.rs).                                                            *)
(*                                                                         *)
(* f64 values are modelled as exact rationals <<n, d>> in lowest terms     *)
(* with d > 0; rounding error is not modelled.                             *)
(* Vec<T> is a sequence; a usize index i addresses element i + 1.          *)
(***************************************************************************)
EXTENDS Integers, Sequences, FiniteSets, TLC

(***************************************************************************)
(* Bounds of the model.                                                    *)
(***************************************************************************)
MaxPath == 2
MaxGestures == 1
MaxBlocks == 3     \* the most blocks a generated FunctionDoc has
MaxEdges == 2      \* the most edges a generated FunctionDoc has, over all its blocks

(***************************************************************************)
(* f64 arithmetic, as exact rationals.                                     *)
(***************************************************************************)
Abs(x) == IF x < 0 THEN -x ELSE x

RECURSIVE GCD(_, _)
GCD(a, b) == IF b = 0 THEN a ELSE GCD(b, a % b)

R(n, d) ==
    IF d = 1 THEN <<n, 1>>
    ELSE LET g == GCD(Abs(n), Abs(d))
             s == IF d < 0 THEN -1 ELSE 1
         IN  <<(s * n) \div g, (s * d) \div g>>

F(n) == <<n, 1>>
(* Common factors are divided out before multiplying, to keep the         *)
(* intermediate integers small.                                            *)
RAdd(a, b) ==
    IF a[2] = b[2] THEN R(a[1] + b[1], a[2])
    ELSE LET g == GCD(a[2], b[2])
         IN  R(a[1] * (b[2] \div g) + b[1] * (a[2] \div g), (a[2] \div g) * b[2])
RSub(a, b) == RAdd(a, <<-b[1], b[2]>>)
RMul(a, b) ==
    IF a[2] = 1 /\ b[2] = 1 THEN <<a[1] * b[1], 1>>
    ELSE LET g == GCD(Abs(a[1]), b[2])
             h == GCD(Abs(b[1]), a[2])
         IN  <<(a[1] \div g) * (b[1] \div h), (a[2] \div h) * (b[2] \div g)>>
RDiv(a, b) == RMul(a, IF b[1] < 0 THEN <<-b[2], -b[1]>> ELSE <<b[2], b[1]>>)
RLt(a, b) == a[1] * b[2] < b[1] * a[2]
RLe(a, b) == a[1] * b[2] <= b[1] * a[2]
RMin(a, b) == IF RLt(b, a) THEN b ELSE a
RMax(a, b) == IF RLt(a, b) THEN b ELSE a
RClamp(x, lo, hi) == IF RLt(x, lo) THEN lo ELSE IF RLt(hi, x) THEN hi ELSE x

(***************************************************************************)
(* Vec helpers: 0-based get, as slice::get and Vec indexing.               *)
(***************************************************************************)
InRange(v, i) == i >= 0 /\ i < Len(v)
At(v, i) == v[i + 1]
Front(v) == SubSeq(v, 1, Len(v) - 1)
Last(v) == v[Len(v)]

(***************************************************************************)
(* graph.rs: the data model.                                               *)
(***************************************************************************)
EdgeKind == {"normal", "cleanup", "otherwise", "branch"}
BlockRole == {"entry", "exit", "branchpoint", "mergepoint", "linear", "cleanup"}

ExplorerEdge(target, label, kind) ==
    [target |-> target, label |-> label, kind |-> kind]

ExplorerBlock(id, edges, role) ==
    [id |-> id, terminator |-> [edges |-> edges], role |-> role]

ExplorerFunction(short_name, blocks, entry_block) ==
    [short_name |-> short_name, blocks |-> blocks, entry_block |-> entry_block]

ExplorerData(name, functions) == [name |-> name, functions |-> functions]

(***************************************************************************)
(* layout.rs: layout constants.                                            *)
(***************************************************************************)
NODE_WIDTH == 60
NODE_HEIGHT == 35
HORIZONTAL_SPACING == 80
VERTICAL_SPACING == 100
BACK_EDGE_OFFSET == 30

LayoutNode(id, x, y, role) ==
    [id |-> id, x |-> x, y |-> y, width |-> F(NODE_WIDTH),
     height |-> F(NODE_HEIGHT), role |-> role]

(* HashMap<usize, Vec<usize>>: a later insert of the same block id wins.   *)
Successors(func) ==
    LET ids == {func.blocks[k].id : k \in 1..Len(func.blocks)}
        lastOf(i) == CHOOSE k \in 1..Len(func.blocks) :
                        /\ func.blocks[k].id = i
                        /\ \A j \in 1..Len(func.blocks) :
                              func.blocks[j].id = i => j <= k
        targets(k) == [e \in 1..Len(func.blocks[k].terminator.edges) |->
                          func.blocks[k].terminator.edges[e].target]
    IN  [i \in ids |-> targets(lastOf(i))]

(* The inner for loop of the BFS: push the unvisited successors.           *)
RECURSIVE PushSuccs(_, _, _, _)
PushSuccs(succs, layer, visited, queue) ==
    IF succs = <<>> THEN [visited |-> visited, queue |-> queue]
    ELSE IF Head(succs) \in visited
         THEN PushSuccs(Tail(succs), layer, visited, queue)
         ELSE PushSuccs(Tail(succs), layer, visited \cup {Head(succs)},
                        Append(queue, <<Head(succs), layer + 1>>))

(* A successor skipped when it has a layer already, not when it was seen.   *)
WhileBody_checks_layer_map(successors, queue, visited, layer_map) ==
    LET node == Head(queue)[1]
        layer == Head(queue)[2]
        lm == [n \in DOMAIN layer_map \cup {node} |->
                  IF n = node THEN layer ELSE layer_map[n]]
        succs == IF node \in DOMAIN successors THEN successors[node] ELSE <<>>
        st == PushSuccs(succs, layer, DOMAIN lm, Tail(queue))
    IN  [queue |-> st.queue, visited |-> st.visited, layer_map |-> lm]

(* One iteration of the while loop of the BFS, the queue not empty;        *)
(* layer_map is a function on the nodes popped.                            *)
WhileBody(successors, queue, visited, layer_map) ==
    LET node == Head(queue)[1]
        layer == Head(queue)[2]
        lm == [n \in DOMAIN layer_map \cup {node} |->
                  IF n = node THEN layer ELSE layer_map[n]]
        succs == IF node \in DOMAIN successors THEN successors[node] ELSE <<>>
        st == PushSuccs(succs, layer, visited, Tail(queue))
    IN  [queue |-> st.queue, visited |-> st.visited, layer_map |-> lm]

(* The while loop of the BFS. *)
RECURSIVE Bfs(_, _, _, _)
Bfs(successors, queue, visited, layer_map) ==
    IF queue = <<>> THEN layer_map
    ELSE LET st == WhileBody(successors, queue, visited, layer_map)
         IN  Bfs(successors, st.queue, st.visited, st.layer_map)

SetMax(S) == CHOOSE m \in S : \A x \in S : x <= m

(* Vec::sort of the ids a layer holds. *)
RECURSIVE SortedSeq(_)
SortedSeq(S) ==
    IF S = {} THEN <<>>
    ELSE LET m == CHOOSE x \in S : \A y \in S : x <= y
         IN  <<m>> \o SortedSeq(S \ {m})

(* The unreached blocks put into the last layer the BFS discovered. *)
LayerMap_unreached_join_last(entry, block_count, successors) ==
    LET reached == Bfs(successors, <<<<entry, 0>>>>, {entry}, <<>>)
        max_layer == SetMax({reached[n] : n \in DOMAIN reached})
    IN  [n \in DOMAIN reached \cup 0..(block_count - 1) |->
            IF n \in DOMAIN reached THEN reached[n] ELSE max_layer]

(* "Handle unreachable nodes": lines 107-110. *)
WithUnreached(reached, block_count) ==
    LET max_layer == SetMax({reached[n] : n \in DOMAIN reached})
    IN  [n \in DOMAIN reached \cup 0..(block_count - 1) |->
            IF n \in DOMAIN reached THEN reached[n] ELSE max_layer + 1]

LayerMap(entry, block_count, successors) ==
    WithUnreached(Bfs(successors, <<<<entry, 0>>>>, {entry}, <<>>), block_count)

compute_layers(entry, block_count, successors) ==
    LET layer_map == LayerMap(entry, block_count, successors)
        num_layers == SetMax({layer_map[n] : n \in DOMAIN layer_map}) + 1
    IN  [l \in 1..num_layers |->
            SortedSeq({n \in DOMAIN layer_map : layer_map[n] = l - 1})]

(* A row laid out to the right of x = 0 instead of around it. *)
PlacedNode_from_zero(func, layers, layer_idx, pos_in_layer) ==
    LET layer == layers[layer_idx + 1]
        node_id == At(layer, pos_in_layer)
    IN  LayoutNode(node_id,
                   F(pos_in_layer * (NODE_WIDTH + HORIZONTAL_SPACING)),
                   F(layer_idx * VERTICAL_SPACING),
                   At(func.blocks, node_id).role)

(* A row stepping by the spacing alone, the node width left out. *)
PlacedNode_steps_by_spacing(func, layers, layer_idx, pos_in_layer) ==
    LET layer == layers[layer_idx + 1]
        node_id == At(layer, pos_in_layer)
        layer_width == Len(layer) * (NODE_WIDTH + HORIZONTAL_SPACING) - HORIZONTAL_SPACING
        start_x == R(-layer_width, 2)
    IN  LayoutNode(node_id,
                   RAdd(start_x, F(pos_in_layer * HORIZONTAL_SPACING)),
                   F(layer_idx * VERTICAL_SPACING),
                   At(func.blocks, node_id).role)

(* The node position_nodes writes for the id at pos_in_layer of a layer.   *)
PlacedNode(func, layers, layer_idx, pos_in_layer) ==
    LET layer == layers[layer_idx + 1]
        node_id == At(layer, pos_in_layer)
        layer_width == Len(layer) * (NODE_WIDTH + HORIZONTAL_SPACING) - HORIZONTAL_SPACING
        start_x == R(-layer_width, 2)
    IN  LayoutNode(node_id,
                   RAdd(start_x, F(pos_in_layer * (NODE_WIDTH + HORIZONTAL_SPACING))),
                   F(layer_idx * VERTICAL_SPACING),
                   At(func.blocks, node_id).role)

position_nodes(func, layers) ==
    LET where(k) == {<<l, p>> \in (0..(Len(layers) - 1)) \X (0..(Len(func.blocks))) :
                        p < Len(layers[l + 1]) /\ At(layers[l + 1], p) = k}
    IN  [k1 \in 1..Len(func.blocks) |->
            IF where(k1 - 1) = {}
            THEN LayoutNode(0, F(0), F(0), "linear")
            ELSE LET lp == CHOOSE w \in where(k1 - 1) : TRUE
                 IN  PlacedNode(func, layers, lp[1], lp[2])]

route_forward_edge(from_x, from_y, to_x, to_y) ==
    LET mid_y == RDiv(RAdd(from_y, to_y), F(2))
    IN  << <<from_x, from_y>>, <<from_x, mid_y>>, <<to_x, mid_y>>, <<to_x, to_y>> >>

route_back_edge(from, to) ==
    LET from_center_x == RAdd(from.x, RDiv(from.width, F(2)))
        from_bottom_y == RAdd(from.y, from.height)
        to_center_x == RAdd(to.x, RDiv(to.width, F(2)))
        to_bottom_y == RAdd(to.y, to.height)
        offset == F(BACK_EDGE_OFFSET)
        right_x == RAdd(RAdd(RMax(from.x, to.x), from.width), offset)
    IN  << <<from_center_x, from_bottom_y>>,
           <<from_center_x, RAdd(from_bottom_y, offset)>>,
           <<right_x, RAdd(from_bottom_y, offset)>>,
           <<right_x, RAdd(to_bottom_y, offset)>>,
           <<to_center_x, RAdd(to_bottom_y, offset)>>,
           <<to_center_x, to_bottom_y>> >>

(* An edge to a node of the same level routed as a forward edge. *)
RoutedEdge_same_level_forward(nodes, from, edge) ==
    LET from_node == At(nodes, from)
        to_node == At(nodes, edge.target)
        from_center_x == RAdd(from_node.x, RDiv(from_node.width, F(2)))
        from_bottom_y == RAdd(from_node.y, from_node.height)
        to_center_x == RAdd(to_node.x, RDiv(to_node.width, F(2)))
        to_top_y == to_node.y
    IN  [from |-> from, to |-> edge.target, label |-> edge.label, kind |-> edge.kind,
         points |-> IF RLt(to_node.y, from_node.y)
                    THEN route_back_edge(from_node, to_node)
                    ELSE route_forward_edge(from_center_x, from_bottom_y,
                                            to_center_x, to_top_y)]

(* One LayoutEdge; nodes[from] and nodes[to] are in range here.            *)
RoutedEdge(nodes, from, edge) ==
    LET from_node == At(nodes, from)
        to_node == At(nodes, edge.target)
        from_center_x == RAdd(from_node.x, RDiv(from_node.width, F(2)))
        from_bottom_y == RAdd(from_node.y, from_node.height)
        to_center_x == RAdd(to_node.x, RDiv(to_node.width, F(2)))
        to_top_y == to_node.y
    IN  [from |-> from, to |-> edge.target, label |-> edge.label, kind |-> edge.kind,
         points |-> IF RLe(to_node.y, from_node.y)
                    THEN route_back_edge(from_node, to_node)
                    ELSE route_forward_edge(from_center_x, from_bottom_y,
                                            to_center_x, to_top_y)]

(* nodes[from] or nodes[to] out of range: the index panics.                *)
RouteEdgesPanics(func, nodes) ==
    \E k \in 1..Len(func.blocks) :
        \/ ~InRange(nodes, func.blocks[k].id)
        \/ \E e \in 1..Len(func.blocks[k].terminator.edges) :
              ~InRange(nodes, func.blocks[k].terminator.edges[e].target)

RECURSIVE route_edges_from(_, _, _)
route_edges_from(func, nodes, k) ==
    IF k > Len(func.blocks) THEN <<>>
    ELSE LET block == func.blocks[k]
         IN  [e \in 1..Len(block.terminator.edges) |->
                 RoutedEdge(nodes, block.id, block.terminator.edges[e])]
             \o route_edges_from(func, nodes, k + 1)

(* route_edges drawing one edge per (from, to) pair: a parallel edge is dropped. *)
route_edges_deduplicated(func, nodes) ==
    LET all == route_edges_from(func, nodes, 1)
        first(i) == ~\E j \in 1..(i - 1) : all[j].from = all[i].from /\ all[j].to = all[i].to
        RECURSIVE keep(_)
        keep(i) == IF i > Len(all) THEN <<>>
                   ELSE (IF first(i) THEN <<all[i]>> ELSE <<>>) \o keep(i + 1)
    IN  keep(1)

route_edges(func, nodes) == route_edges_from(func, nodes, 1)

(* The for loop of compute_bounds; acc is (min_x, min_y, max_x, max_y).     *)
RECURSIVE BoundsFold(_, _, _)
BoundsFold(nodes, k, acc) ==
    IF k > Len(nodes) THEN acc
    ELSE LET node == nodes[k]
         IN  BoundsFold(nodes, k + 1,
                 <<RMin(acc[1], node.x), RMin(acc[2], node.y),
                   RMax(acc[3], RAdd(node.x, node.width)),
                   RMax(acc[4], RAdd(node.y, node.height))>>)

(* compute_bounds taking the corner (x, y) of each node for both extremes. *)
compute_bounds_of_corners(nodes) ==
    IF nodes = <<>> THEN <<F(0), F(0), F(0), F(0)>>
    ELSE LET xs == {nodes[k].x : k \in 1..Len(nodes)}
             ys == {nodes[k].y : k \in 1..Len(nodes)}
         IN  <<CHOOSE m \in xs : \A x \in xs : RLe(m, x),
               CHOOSE m \in ys : \A y \in ys : RLe(m, y),
               CHOOSE m \in xs : \A x \in xs : RLe(x, m),
               CHOOSE m \in ys : \A y \in ys : RLe(y, m)>>

(* Folding from (+inf, +inf, -inf, -inf) gives the first node's rectangle  *)
(* after one iteration; the fold starts there.                             *)
compute_bounds(nodes) ==
    IF nodes = <<>> THEN <<F(0), F(0), F(0), F(0)>>
    ELSE BoundsFold(nodes, 2,
             <<nodes[1].x, nodes[1].y,
               RAdd(nodes[1].x, nodes[1].width), RAdd(nodes[1].y, nodes[1].height)>>)

EmptyLayout == [nodes |-> <<>>, edges |-> <<>>, bounds |-> <<F(0), F(0), F(0), F(0)>>]

(* from_function panics exactly when route_edges indexes out of range.     *)
FromFunctionPanics(func) ==
    /\ Len(func.blocks) > 0
    /\ RouteEdgesPanics(func,
           position_nodes(func,
               compute_layers(func.entry_block, Len(func.blocks), Successors(func))))

from_function(func) ==
    IF Len(func.blocks) = 0 THEN EmptyLayout
    ELSE LET successors == Successors(func)
             layers == compute_layers(func.entry_block, Len(func.blocks), successors)
             nodes == position_nodes(func, layers)
         IN  [nodes |-> nodes, edges |-> route_edges(func, nodes),
              bounds |-> compute_bounds(nodes)]

(***************************************************************************)
(* compute_layers with the iteration order of layer_map made explicit:     *)
(* `for (node, layer) in layer_map` visits the keys of a HashMap in an     *)
(* order the code does not control.  order is a sequence holding every key *)
(* of layer_map once.                                                      *)
(***************************************************************************)
KeyOrders(layer_map) ==
    LET keys == DOMAIN layer_map
    IN  {o \in [1..Cardinality(keys) -> keys] :
            \A i, j \in 1..Cardinality(keys) : o[i] = o[j] => i = j}

(* layers[layer].push(node), in iteration order. *)
RECURSIVE GroupByLayer(_, _, _)
GroupByLayer(layer_map, order, layers) ==
    IF order = <<>> THEN layers
    ELSE LET node == Head(order)
             layer == layer_map[node]
         IN  GroupByLayer(layer_map, Tail(order),
                 [layers EXCEPT ![layer + 1] = Append(@, node)])

RECURSIVE Insert(_, _)
Insert(x, v) ==
    IF v = <<>> THEN <<x>>
    ELSE IF x <= Head(v) THEN <<x>> \o v
    ELSE <<Head(v)>> \o Insert(x, Tail(v))

(* A layer left in the order the iteration pushed it. *)
sort_skipped(v) == v

(* Vec::sort *)
RECURSIVE sort(_)
sort(v) == IF v = <<>> THEN <<>> ELSE Insert(Head(v), sort(Tail(v)))

(* "Group by layer" and "Sort nodes within each layer", lines 112-122. *)
GroupAndSort(layer_map, order) ==
    LET num_layers == SetMax({layer_map[n] : n \in DOMAIN layer_map}) + 1
        grouped == GroupByLayer(layer_map, order, [l \in 1..num_layers |-> <<>>])
    IN  [l \in 1..num_layers |-> sort(grouped[l])]

(* What compute_layers may return, over the iteration orders a run may meet. *)
compute_layers_any(entry, block_count, successors) ==
    LET layer_map == LayerMap(entry, block_count, successors)
    IN  {GroupAndSort(layer_map, order) : order \in KeyOrders(layer_map)}

(* from_function from the layers on: lines 68-77. *)
from_layers(func, layers) ==
    LET nodes == position_nodes(func, layers)
    IN  [nodes |-> nodes, edges |-> route_edges(func, nodes),
         bounds |-> compute_bounds(nodes)]

(* What from_function(func) may return; func does not make it panic. *)
from_function_any(func) ==
    IF Len(func.blocks) = 0 THEN {EmptyLayout}
    ELSE {from_layers(func, layers) :
             layers \in compute_layers_any(func.entry_block, Len(func.blocks),
                                           Successors(func))}

(***************************************************************************)
(* The documents the host hands to load_json.  A JSON text is modelled by  *)
(* what serde_json::from_str makes of it: a parse error, or the            *)
(* ExplorerData it deserializes to (serde checks the schema only).         *)
(***************************************************************************)
FnBranch ==
    ExplorerFunction("branch",
        << ExplorerBlock(0, << ExplorerEdge(1, "true", "branch"),
                               ExplorerEdge(2, "false", "otherwise") >>, "branchpoint"),
           ExplorerBlock(1, <<>>, "exit"),
           ExplorerBlock(2, <<>>, "exit") >>, 0)

FnLoop ==
    ExplorerFunction("loop",
        << ExplorerBlock(0, << ExplorerEdge(1, "", "normal") >>, "linear"),
           ExplorerBlock(1, << ExplorerEdge(1, "again", "branch"),
                               ExplorerEdge(0, "", "otherwise"),
                               ExplorerEdge(0, "", "cleanup") >>, "entry") >>, 1)

FnSingle ==
    ExplorerFunction("single",
        << ExplorerBlock(0, << ExplorerEdge(0, "", "normal") >>, "entry") >>, 0)

FnEmpty == ExplorerFunction("empty", <<>>, 0)

FnBadEntry ==
    ExplorerFunction("badentry",
        << ExplorerBlock(0, << ExplorerEdge(0, "", "normal") >>, "entry") >>, 1)

FnBadEdge ==
    ExplorerFunction("badedge",
        << ExplorerBlock(0, << ExplorerEdge(1, "", "normal") >>, "entry"),
           ExplorerBlock(1, << ExplorerEdge(3, "", "normal") >>, "linear") >>, 0)

Malformed == [wellformed |-> FALSE, value |-> ExplorerData("", <<>>)]
Json(d) == [wellformed |-> TRUE, value |-> d]

JsonInputs ==
    { Malformed,
      Json(ExplorerData("none", <<>>)),
      Json(ExplorerData("a", <<FnBranch, FnLoop>>)),
      Json(ExplorerData("b", <<FnSingle>>)),
      Json(ExplorerData("badentry", <<FnBadEntry>>)),
      Json(ExplorerData("badedge", <<FnBadEdge>>)),
      Json(ExplorerData("late", <<FnEmpty, FnBadEdge>>)) }

(* The data-model invariants of a FunctionDoc and of a document.           *)
ValidFunction(func) ==
    /\ func.entry_block < Len(func.blocks)
    /\ \A k \in 1..Len(func.blocks) :
          /\ func.blocks[k].id = k - 1
          /\ \A e \in 1..Len(func.blocks[k].terminator.edges) :
                func.blocks[k].terminator.edges[e].target < Len(func.blocks)

ValidData(d) == \A i \in 1..Len(d.functions) : ValidFunction(d.functions[i])

(* GraphLayout::from_function on each function of the documents above,     *)
(* evaluated once: the layout is a pure function of the FunctionDoc.       *)
DocFunctions ==
    UNION {{j.value.functions[i] : i \in 1..Len(j.value.functions)} : j \in JsonInputs}

LayoutOf ==
    [func \in DocFunctions |->
        IF FromFunctionPanics(func) THEN [panics |-> TRUE, layout |-> EmptyLayout]
        ELSE [panics |-> FALSE, layout |-> from_function(func)]]

(***************************************************************************)
(* The FunctionDocs the layout is run on by itself: every function of at   *)
(* most MaxBlocks blocks (block id = index) and at most MaxEdges edges     *)
(* with entry and targets in range, and the functions of the documents     *)
(* above.                                                                  *)
(***************************************************************************)
TargetLists(n, budget) == UNION {[1..k -> 0..(n - 1)] : k \in 0..budget}

(* The edge-target lists of blocks k..n-1, with budget edges left to spend. *)
RECURSIVE TargetListSeqs(_, _, _)
TargetListSeqs(k, n, budget) ==
    IF k = n THEN {<<>>}
    ELSE UNION {{<<targets>> \o rest :
                    rest \in TargetListSeqs(k + 1, n, budget - Len(targets))} :
                targets \in TargetLists(n, budget)}

GeneratedFunction(targetLists, entry) ==
    ExplorerFunction("generated",
        [k \in 1..Len(targetLists) |->
            ExplorerBlock(k - 1,
                [e \in 1..Len(targetLists[k]) |->
                    ExplorerEdge(targetLists[k][e], "", "normal")],
                IF k - 1 = entry THEN "entry" ELSE "linear")],
        entry)

GeneratedFunctions(max_blocks, max_edges) ==
    UNION {{GeneratedFunction(tl, entry) :
               tl \in TargetListSeqs(0, n, max_edges), entry \in 0..(n - 1)} :
           n \in 1..max_blocks}

(* Two blocks in a cycle and two blocks no path from the entry reaches. *)
FnIsland ==
    ExplorerFunction("island",
        << ExplorerBlock(0, << ExplorerEdge(1, "", "normal") >>, "entry"),
           ExplorerBlock(1, << ExplorerEdge(0, "", "normal") >>, "linear"),
           ExplorerBlock(2, << ExplorerEdge(3, "", "normal") >>, "linear"),
           ExplorerBlock(3, <<>>, "exit") >>, 0)

(* A block with three successors, listed out of id order, one of them twice. *)
FnFan ==
    ExplorerFunction("fan",
        << ExplorerBlock(0, << ExplorerEdge(3, "a", "branch"),
                               ExplorerEdge(1, "b", "branch"),
                               ExplorerEdge(3, "c", "cleanup"),
                               ExplorerEdge(2, "", "otherwise") >>, "branchpoint"),
           ExplorerBlock(1, <<>>, "exit"),
           ExplorerBlock(2, << ExplorerEdge(0, "back", "normal") >>, "linear"),
           ExplorerBlock(3, << ExplorerEdge(1, "", "normal") >>, "linear") >>, 0)

LayoutInputs(max_blocks, max_edges) ==
    GeneratedFunctions(max_blocks, max_edges) \cup DocFunctions \cup {FnIsland, FnFan}

(***************************************************************************)
(* render.rs: what Renderer::render decides for each edge and node of the  *)
(* layout.  The canvas calls are modelled by the style they are given.     *)
(***************************************************************************)
NODE_BG == "#3a3a5e"
NODE_VISITED == "#2a4a6e"
NODE_CURRENT == "#50fa7b"
TEXT_COLOR == "#eee"
TEXT_DARK == "#1a1a2e"
EDGE_COLOR == "#555"
EDGE_TAKEN == "#50fa7b"
EDGE_CLEANUP == "#ff5555"
EDGE_SELECTED == "#8be9fd"

(* The targets of the current block's edges; empty when there is no such block. *)
current_edges(func, current) ==
    IF InRange(func.blocks, current)
    THEN [e \in 1..Len(At(func.blocks, current).terminator.edges) |->
             At(func.blocks, current).terminator.edges[e].target]
    ELSE <<>>

(* is_edge_in_path looking at the pairs inside the path only. *)
is_edge_in_path_without_current(from, to, path, current) ==
    \E i \in 0..(Len(path) - 2) : At(path, i) = from /\ At(path, i + 1) = to

is_edge_in_path(from, to, path, current) ==
    \E i \in 0..(Len(path) - 1) :
        LET path_from == At(path, i)
            path_to == IF i + 1 < Len(path) THEN At(path, i + 1) ELSE current
        IN  path_from = from /\ path_to = to

(* let is_selected = ... in the edge loop of render *)
is_selected(edge, current, targets, selected_edge) ==
    /\ edge.from = current
    /\ InRange(targets, selected_edge)
    /\ At(targets, selected_edge) = edge.to

(* render_edge letting the taken style win over the selected one. *)
render_edge_taken_first(edge, taken, selected) ==
    [color |-> IF taken THEN EDGE_TAKEN
               ELSE IF selected THEN EDGE_SELECTED
               ELSE IF edge.kind = "cleanup" THEN EDGE_CLEANUP ELSE EDGE_COLOR,
     width |-> IF selected \/ taken THEN 3 ELSE 2,
     dashed |-> edge.kind = "cleanup"]

(* The stroke render_edge draws the polyline with. *)
render_edge(edge, taken, selected) ==
    [color |-> IF selected THEN EDGE_SELECTED
               ELSE IF taken THEN EDGE_TAKEN
               ELSE IF edge.kind = "cleanup" THEN EDGE_CLEANUP ELSE EDGE_COLOR,
     width |-> IF selected \/ taken THEN 3 ELSE 2,
     dashed |-> edge.kind = "cleanup"]

(* ctx.set_global_alpha(0.35) *)
DIMMED == R(35, 100)

(* render_node dimming by the path alone, whether or not it is empty. *)
render_node_dims_without_path(node, is_current, is_visited, visited_set) ==
    LET is_reachable == is_current \/ is_visited
    IN  [alpha |-> IF ~is_reachable THEN DIMMED ELSE F(1),
         fill |-> IF is_current THEN NODE_CURRENT
                  ELSE IF is_visited THEN NODE_VISITED ELSE NODE_BG,
         border_width |-> IF is_current \/ node.role # "linear" THEN 3 ELSE 2,
         text_color |-> IF is_current THEN TEXT_DARK ELSE TEXT_COLOR]

(* The opacity, fill, border and text colour render_node draws a node with. *)
render_node(node, is_current, is_visited, visited_set) ==
    LET is_reachable == is_current \/ is_visited \/ visited_set = {}
    IN  [alpha |-> IF ~is_reachable THEN DIMMED ELSE F(1),
         fill |-> IF is_current THEN NODE_CURRENT
                  ELSE IF is_visited THEN NODE_VISITED ELSE NODE_BG,
         border_width |-> IF is_current \/ node.role # "linear" THEN 3 ELSE 2,
         text_color |-> IF is_current THEN TEXT_DARK ELSE TEXT_COLOR]

(* Renderer::render: the styles of the edges and of the nodes, in drawing order. *)
Renderer_render(lay, func, path, current, selected_edge) ==
    LET path_set == {path[i] : i \in 1..Len(path)}
        targets == current_edges(func, current)
    IN  [edges |-> [i \in 1..Len(lay.edges) |->
                       render_edge(lay.edges[i],
                           is_edge_in_path(lay.edges[i].from, lay.edges[i].to, path, current),
                           is_selected(lay.edges[i], current, targets, selected_edge))],
         nodes |-> [k \in 1..Len(lay.nodes) |->
                       render_node(lay.nodes[k], lay.nodes[k].id = current,
                                   lay.nodes[k].id \in path_set, path_set)]]

(***************************************************************************)
(* input.rs                                                                *)
(***************************************************************************)
Digits == <<"1", "2", "3", "4", "5", "6", "7", "8", "9">>

AllKeys ==
    {"h", "ArrowLeft", "Backspace", "j", "ArrowDown", "k", "ArrowUp",
     "l", "ArrowRight", "Enter", "Escape", "/", "0", "x", "H"}
    \cup {Digits[i] : i \in 1..9}

(* The keys the host sends: one or two of each binding. *)
Keys == {"h", "Backspace", "j", "ArrowUp", "l", "Enter", "Escape", "/",
         "1", "2", "3", "9", "0", "x"}

(* parse_key taking the digit as the edge index, without the shift to 0-based. *)
parse_key_digit_unshifted(key) ==
    IF key \in {"h", "ArrowLeft", "Backspace"} THEN [action |-> "GoBack", n |-> 0]
    ELSE IF key \in {"j", "ArrowDown"} THEN [action |-> "MoveDown", n |-> 0]
    ELSE IF key \in {"k", "ArrowUp"} THEN [action |-> "MoveUp", n |-> 0]
    ELSE IF key \in {"l", "ArrowRight", "Enter"} THEN [action |-> "MoveRight", n |-> 0]
    ELSE IF key = "Escape" THEN [action |-> "Reset", n |-> 0]
    ELSE IF key = "/" THEN [action |-> "FocusSearch", n |-> 0]
    ELSE IF \E i \in 1..9 : Digits[i] = key
         THEN [action |-> "SelectEdge", n |-> CHOOSE i \in 1..9 : Digits[i] = key]
    ELSE [action |-> "None", n |-> 0]

parse_key(key) ==
    IF key \in {"h", "ArrowLeft", "Backspace"} THEN [action |-> "GoBack", n |-> 0]
    ELSE IF key \in {"j", "ArrowDown"} THEN [action |-> "MoveDown", n |-> 0]
    ELSE IF key \in {"k", "ArrowUp"} THEN [action |-> "MoveUp", n |-> 0]
    ELSE IF key \in {"l", "ArrowRight", "Enter"} THEN [action |-> "MoveRight", n |-> 0]
    ELSE IF key = "Escape" THEN [action |-> "Reset", n |-> 0]
    ELSE IF key = "/" THEN [action |-> "FocusSearch", n |-> 0]
    ELSE IF \E i \in 1..9 : Digits[i] = key
         THEN [action |-> "SelectEdge", n |-> (CHOOSE i \in 1..9 : Digits[i] = key) - 1]
    ELSE [action |-> "None", n |-> 0]

(***************************************************************************)
(* mk_graph/output/traversal.rs: detect_loops.  A body is modelled by the  *)
(* successor lists get_terminator_targets gives for its blocks, in block   *)
(* order; stack.pop() takes the last element of the stack.                 *)
(***************************************************************************)
(* The loop body reporting start when any block comes up a second time.    *)
WhileLet_any_revisit(successors, start, visited, stack, loop_blocks) ==
    LET curr == stack[Len(stack)]
        rest == SubSeq(stack, 1, Len(stack) - 1)
    IN  IF curr = start \/ curr \in visited
        THEN [visited |-> visited, stack |-> rest,
              loop_blocks |-> loop_blocks \cup {start}, break |-> TRUE]
        ELSE [visited |-> visited \cup {curr},
              stack |-> IF curr < Len(successors)
                        THEN rest \o At(successors, curr) ELSE rest,
              loop_blocks |-> loop_blocks, break |-> FALSE]

(* One iteration of `while let Some(curr) = stack.pop()`, the stack not    *)
(* empty.                                                                  *)
WhileLet(successors, start, visited, stack, loop_blocks) ==
    LET curr == stack[Len(stack)]
        rest == SubSeq(stack, 1, Len(stack) - 1)
    IN  IF curr = start
        THEN [visited |-> visited, stack |-> rest,
              loop_blocks |-> loop_blocks \cup {start}, break |-> TRUE]
        ELSE IF curr \notin visited /\ curr < Len(successors)
        THEN [visited |-> visited \cup {curr}, stack |-> rest \o At(successors, curr),
              loop_blocks |-> loop_blocks, break |-> FALSE]
        ELSE [visited |-> visited \cup {curr}, stack |-> rest,
              loop_blocks |-> loop_blocks, break |-> FALSE]

(* 0 -> 1 -> 2 -> 1 with an exit 2 -> 3, and 3 on a self-loop. *)
BodyLeadIn == << <<1>>, <<2>>, <<1, 3>>, <<3>> >>

(* A target that is no block: the guard `curr < successors.len()`. *)
BodyStray == << <<2, 1>>, <<0>> >>

(* The bodies detect_loops is run on: the successor lists of at most       *)
(* max_blocks blocks and max_edges edges with every target a block, a body *)
(* without blocks, and the two bodies above.                               *)
Bodies(max_blocks, max_edges) ==
    UNION {TargetListSeqs(0, n, max_edges) : n \in 0..max_blocks}
        \cup {BodyLeadIn, BodyStray}

(***************************************************************************)
(* app.rs: the state of MirExplorer.  Option<T> is <<>> (None) or <<v>>.   *)
(***************************************************************************)
VARIABLES
    data,              \* Option<ExplorerData>
    current_fn_index,
    current_block,
    selected_edge,
    path,              \* Vec<usize>
    layout,            \* Option<GraphLayout>
    scale,
    offset,            \* (f64, f64)
    canvas,            \* the canvas' bounding client rectangle: (width, height)
    frame,             \* what the renderer last drew: Option of its arguments
    drew,              \* the last operation called Renderer::render
    layouts,           \* the layouts GraphLayout::from_function returned to it
    ret,               \* what the last operation returned
    crashed,           \* an index panicked: the instance is gone
    gestures,          \* wheel and drag events so far
    layout_func,       \* the layout run by itself: Option of the FunctionDoc given
    layout_result,     \* ... and Option of the GraphLayout its last run returned
    bfs,               \* compute_layers step by step: Option of its locals
    loops              \* detect_loops step by step: Option of its body and locals

vars == <<data, current_fn_index, current_block, selected_edge, path, layout, scale,
          offset, canvas, frame, drew, layouts, ret, crashed, gestures, layout_func,
          layout_result, bfs, loops>>

None == <<>>
Some(v) == <<v>>

Self ==
    [data |-> data, current_fn_index |-> current_fn_index,
     current_block |-> current_block, selected_edge |-> selected_edge,
     path |-> path, layout |-> layout, scale |-> scale, offset |-> offset,
     canvas |-> canvas, frame |-> frame, drew |-> drew, layouts |-> layouts,
     ret |-> ret, crashed |-> crashed]

(* MirExplorer::new *)
New(cv) ==
    [data |-> None, current_fn_index |-> 0, current_block |-> 0, selected_edge |-> 0,
     path |-> <<>>, layout |-> None, scale |-> F(1), offset |-> <<F(0), F(0)>>,
     canvas |-> cv, frame |-> None, drew |-> FALSE, layouts |-> 0, ret |-> "unit",
     crashed |-> FALSE]

Panic(self) == [self EXCEPT !.crashed = TRUE, !.ret = "panic"]

(* The fields of the controller proper, without what the host observes.    *)
Fields(self) ==
    [data |-> self.data, current_fn_index |-> self.current_fn_index,
     current_block |-> self.current_block, selected_edge |-> self.selected_edge,
     path |-> self.path, layout |-> self.layout, scale |-> self.scale,
     offset |-> self.offset]

CurrentFunc(self) == At(self.data[1].functions, self.current_fn_index)

(* Renderer::render draws from exactly these arguments.                    *)
RenderArgs(self) ==
    [layout |-> self.layout[1], func |-> self.current_fn_index, path |-> self.path,
     current |-> self.current_block, selected_edge |-> self.selected_edge,
     scale |-> self.scale, offset |-> self.offset]

render(self) ==
    IF self.layout # None /\ self.data # None
    THEN [self EXCEPT !.frame = Some(RenderArgs(self)), !.drew = TRUE]
    ELSE self

PADDING == 60

(* fit_to_view_internal placing the box center with the scale it found,   *)
(* not with the one it has just set.                                       *)
fit_to_view_internal_centers_at_old_scale(self) ==
    IF self.layout = None THEN self
    ELSE LET canvas_width == F(self.canvas[1])
             canvas_height == F(self.canvas[2])
             b == self.layout[1].bounds
             graph_width == RSub(b[3], b[1])
             graph_height == RSub(b[4], b[2])
         IN  IF RLt(F(0), graph_width) /\ RLt(F(0), graph_height)
             THEN LET scale_x == RDiv(RSub(canvas_width, F(PADDING * 2)), graph_width)
                      scale_y == RDiv(RSub(canvas_height, F(PADDING * 2)), graph_height)
                      new_scale == RClamp(RMin(scale_x, scale_y), R(1, 2), F(2))
                      center_x == RDiv(RAdd(b[1], b[3]), F(2))
                      center_y == RDiv(RAdd(b[2], b[4]), F(2))
                  IN  [self EXCEPT
                         !.scale = new_scale,
                         !.offset = <<RSub(RDiv(canvas_width, F(2)), RMul(center_x, self.scale)),
                                      RSub(RDiv(canvas_height, F(2)), RMul(center_y, self.scale))>>]
             ELSE self

fit_to_view_internal(self) ==
    IF self.layout = None THEN self
    ELSE LET canvas_width == F(self.canvas[1])
             canvas_height == F(self.canvas[2])
             b == self.layout[1].bounds
             graph_width == RSub(b[3], b[1])
             graph_height == RSub(b[4], b[2])
         IN  IF RLt(F(0), graph_width) /\ RLt(F(0), graph_height)
             THEN LET scale_x == RDiv(RSub(canvas_width, F(PADDING * 2)), graph_width)
                      scale_y == RDiv(RSub(canvas_height, F(PADDING * 2)), graph_height)
                      new_scale == RClamp(RMin(scale_x, scale_y), R(1, 2), F(2))
                      center_x == RDiv(RAdd(b[1], b[3]), F(2))
                      center_y == RDiv(RAdd(b[2], b[4]), F(2))
                  IN  [self EXCEPT
                         !.scale = new_scale,
                         !.offset = <<RSub(RDiv(canvas_width, F(2)), RMul(center_x, new_scale)),
                                      RSub(RDiv(canvas_height, F(2)), RMul(center_y, new_scale))>>]
             ELSE self

center_on_block(self, block_id) ==
    IF self.layout = None THEN self
    ELSE IF ~InRange(self.layout[1].nodes, block_id) THEN self
    ELSE LET node == At(self.layout[1].nodes, block_id)
         IN  [self EXCEPT !.offset =
                <<RSub(RDiv(F(self.canvas[1]), F(2)),
                       RMul(RAdd(node.x, RDiv(node.width, F(2))), self.scale)),
                  RSub(RDiv(F(self.canvas[2]), F(2)),
                       RMul(RAdd(node.y, RDiv(node.height, F(2))), self.scale))>>]

(* select_function taking the index before it looks for a document. *)
select_function_before_load(self, index) ==
    IF self.data = None THEN [self EXCEPT !.current_fn_index = index]
    ELSE IF index >= Len(self.data[1].functions) THEN self
    ELSE LET func == At(self.data[1].functions, index)
             s1 == [self EXCEPT !.current_fn_index = index, !.path = <<>>,
                                !.selected_edge = 0]
         IN  IF LayoutOf[func].panics THEN Panic(s1)
             ELSE render(fit_to_view_internal(
                      [s1 EXCEPT !.layout = Some(LayoutOf[func].layout),
                                 !.layouts = @ + 1,
                                 !.current_block = func.entry_block]))

(* select_function keeping the path of the function it leaves. *)
select_function_keeps_path(self, index) ==
    IF self.data = None THEN self
    ELSE IF index >= Len(self.data[1].functions) THEN self
    ELSE LET func == At(self.data[1].functions, index)
             s1 == [self EXCEPT !.current_fn_index = index, !.selected_edge = 0]
         IN  IF LayoutOf[func].panics THEN Panic(s1)
             ELSE render(fit_to_view_internal(
                      [s1 EXCEPT !.layout = Some(LayoutOf[func].layout),
                                 !.layouts = @ + 1,
                                 !.current_block = func.entry_block]))

select_function(self, index) ==
    IF self.data = None THEN self
    ELSE IF index >= Len(self.data[1].functions) THEN self
    ELSE LET func == At(self.data[1].functions, index)
             s1 == [self EXCEPT !.current_fn_index = index, !.path = <<>>,
                                !.selected_edge = 0]
         IN  IF LayoutOf[func].panics THEN Panic(s1)
             ELSE render(fit_to_view_internal(
                      [s1 EXCEPT !.layout = Some(LayoutOf[func].layout),
                                 !.layouts = @ + 1,
                                 !.current_block = func.entry_block]))

(* load_json storing the document before it looks at the function list. *)
load_json_stores_first(self, json) ==
    IF ~json.wellformed THEN [self EXCEPT !.ret = "err_parse"]
    ELSE IF json.value.functions = <<>>
         THEN [self EXCEPT !.data = Some(json.value), !.ret = "err_empty"]
    ELSE LET s == select_function([self EXCEPT !.data = Some(json.value)], 0)
         IN  IF s.crashed THEN s ELSE [s EXCEPT !.ret = "ok"]

load_json(self, json) ==
    IF ~json.wellformed THEN [self EXCEPT !.ret = "err_parse"]
    ELSE IF json.value.functions = <<>> THEN [self EXCEPT !.ret = "err_empty"]
    ELSE LET s == select_function([self EXCEPT !.data = Some(json.value)], 0)
         IN  IF s.crashed THEN s ELSE [s EXCEPT !.ret = "ok"]

(* go_to_block_internal pushing whenever add_to_path is set. *)
go_to_block_internal_always_pushes(self, block_id, add_to_path) ==
    IF self.data = None THEN self
    ELSE IF block_id >= Len(CurrentFunc(self).blocks) THEN self
    ELSE LET s1 == IF add_to_path
                   THEN [self EXCEPT !.path = Append(self.path, self.current_block)]
                   ELSE self
             s2 == [s1 EXCEPT !.current_block = block_id, !.selected_edge = 0]
         IN  render(center_on_block(s2, block_id))

(* go_to_block_internal pushing the target instead of the block it leaves. *)
go_to_block_internal_pushes_target(self, block_id, add_to_path) ==
    IF self.data = None THEN self
    ELSE IF block_id >= Len(CurrentFunc(self).blocks) THEN self
    ELSE LET s1 == IF add_to_path /\ self.current_block # block_id
                   THEN [self EXCEPT !.path = Append(self.path, block_id)]
                   ELSE self
             s2 == [s1 EXCEPT !.current_block = block_id, !.selected_edge = 0]
         IN  render(center_on_block(s2, block_id))

go_to_block_internal(self, block_id, add_to_path) ==
    IF self.data = None THEN self
    ELSE IF block_id >= Len(CurrentFunc(self).blocks) THEN self
    ELSE LET s1 == IF add_to_path /\ self.current_block # block_id
                   THEN [self EXCEPT !.path = Append(self.path, self.current_block)]
                   ELSE self
             s2 == [s1 EXCEPT !.current_block = block_id, !.selected_edge = 0]
         IN  render(center_on_block(s2, block_id))

go_to_block(self, block_id) == go_to_block_internal(self, block_id, TRUE)

(* go_back leaving selected_edge as it was. *)
go_back_keeps_edge(self) ==
    IF self.path = <<>> THEN self
    ELSE LET prev == Last(self.path)
             s1 == [self EXCEPT !.path = Front(self.path), !.current_block = prev]
         IN  render(center_on_block(s1, prev))

(* go_back reading the top of the path with last() instead of pop(). *)
go_back_peeks(self) ==
    IF self.path = <<>> THEN self
    ELSE LET prev == Last(self.path)
             s1 == [self EXCEPT !.current_block = prev, !.selected_edge = 0]
         IN  render(center_on_block(s1, prev))

(* go_back leaving the viewport where it was. *)
go_back_no_center(self) ==
    IF self.path = <<>> THEN self
    ELSE LET prev == Last(self.path)
             s1 == [self EXCEPT !.path = Front(self.path), !.current_block = prev,
                                !.selected_edge = 0]
         IN  render(s1)

(* go_back taking the oldest entry of the path instead of the latest. *)
go_back_pops_oldest(self) ==
    IF self.path = <<>> THEN self
    ELSE LET prev == Head(self.path)
             s1 == [self EXCEPT !.path = Tail(self.path), !.current_block = prev,
                                !.selected_edge = 0]
         IN  render(center_on_block(s1, prev))

go_back(self) ==
    IF self.path = <<>> THEN self
    ELSE LET prev == Last(self.path)
             s1 == [self EXCEPT !.path = Front(self.path), !.current_block = prev,
                                !.selected_edge = 0]
         IN  render(center_on_block(s1, prev))

(* reset laying the function out again on its way to the entry block. *)
reset_recomputes_layout(self) ==
    LET s1 == [self EXCEPT !.path = <<>>, !.selected_edge = 0]
    IN  IF s1.data = None THEN s1
        ELSE IF LayoutOf[CurrentFunc(s1)].panics THEN Panic(s1)
        ELSE go_to_block_internal(
                 [s1 EXCEPT !.layout = Some(LayoutOf[CurrentFunc(s1)].layout),
                            !.layouts = @ + 1],
                 CurrentFunc(s1).entry_block, FALSE)

(* reset going to the entry block as a recorded navigation step. *)
reset_records(self) ==
    LET s1 == [self EXCEPT !.path = <<>>, !.selected_edge = 0]
    IN  IF s1.data = None THEN s1
        ELSE go_to_block_internal(s1, CurrentFunc(s1).entry_block, TRUE)

reset(self) ==
    LET s1 == [self EXCEPT !.path = <<>>, !.selected_edge = 0]
    IN  IF s1.data = None THEN s1
        ELSE go_to_block_internal(s1, CurrentFunc(s1).entry_block, FALSE)

(* follow_edge moving to the target without recording the block it leaves. *)
follow_edge_no_record(self, edge_index) ==
    IF self.data = None THEN self
    ELSE LET func == CurrentFunc(self)
         IN  IF ~InRange(func.blocks, self.current_block) THEN Panic(self)
             ELSE LET edges == At(func.blocks, self.current_block).terminator.edges
                  IN  IF InRange(edges, edge_index)
                      THEN go_to_block_internal(self, At(edges, edge_index).target, FALSE)
                      ELSE self

follow_edge(self, edge_index) ==
    IF self.data = None THEN self
    ELSE LET func == CurrentFunc(self)
         IN  IF ~InRange(func.blocks, self.current_block) THEN Panic(self)
             ELSE LET edges == At(func.blocks, self.current_block).terminator.edges
                  IN  IF InRange(edges, edge_index)
                      THEN go_to_block(self, At(edges, edge_index).target)
                      ELSE self

select_next_edge(self) ==
    IF self.data = None THEN self
    ELSE LET func == CurrentFunc(self)
         IN  IF ~InRange(func.blocks, self.current_block) THEN Panic(self)
             ELSE LET edge_count == Len(At(func.blocks, self.current_block).terminator.edges)
                  IN  IF edge_count > 0
                      THEN render([self EXCEPT !.selected_edge =
                                      (self.selected_edge + 1) % edge_count])
                      ELSE self

(* select_prev_edge stopping at edge 0 instead of wrapping. *)
select_prev_edge_saturates(self) ==
    IF self.data = None THEN self
    ELSE LET func == CurrentFunc(self)
         IN  IF ~InRange(func.blocks, self.current_block) THEN Panic(self)
             ELSE LET edge_count == Len(At(func.blocks, self.current_block).terminator.edges)
                  IN  IF edge_count > 0
                      THEN render([self EXCEPT !.selected_edge =
                                      IF self.selected_edge = 0 THEN 0
                                      ELSE self.selected_edge - 1])
                      ELSE self

select_prev_edge(self) ==
    IF self.data = None THEN self
    ELSE LET func == CurrentFunc(self)
         IN  IF ~InRange(func.blocks, self.current_block) THEN Panic(self)
             ELSE LET edge_count == Len(At(func.blocks, self.current_block).terminator.edges)
                  IN  IF edge_count > 0
                      THEN render([self EXCEPT !.selected_edge =
                                      IF self.selected_edge = 0 THEN edge_count - 1
                                      ELSE self.selected_edge - 1])
                      ELSE self

Returns(s, v) == IF s.crashed THEN s ELSE [s EXCEPT !.ret = v]

handle_key(self, key) ==
    LET a == parse_key(key)
    IN  IF a.action = "GoBack" THEN Returns(go_back(self), "true")
        ELSE IF a.action = "Reset" THEN Returns(reset(self), "true")
        ELSE IF a.action = "SelectEdge" THEN Returns(follow_edge(self, a.n), "true")
        ELSE IF a.action = "MoveDown" THEN Returns(select_next_edge(self), "true")
        ELSE IF a.action = "MoveUp" THEN Returns(select_prev_edge(self), "true")
        ELSE IF a.action = "MoveRight"
             THEN Returns(follow_edge(self, self.selected_edge), "true")
        ELSE Returns(self, "false")

SCALE_MIN == R(1, 5)
SCALE_MAX == F(3)

(* handle_wheel moving the offset by the zoom factor asked for, not by the *)
(* change of scale the clamp left.                                         *)
handle_wheel_by_zoom_factor(self, delta_y, mouse_x, mouse_y) ==
    LET zoom_factor == IF delta_y > 0 THEN R(9, 10) ELSE R(11, 10)
        new_scale == RClamp(RMul(self.scale, zoom_factor), SCALE_MIN, SCALE_MAX)
    IN  render([self EXCEPT
            !.offset = <<RSub(F(mouse_x), RMul(RSub(F(mouse_x), self.offset[1]), zoom_factor)),
                         RSub(F(mouse_y), RMul(RSub(F(mouse_y), self.offset[2]), zoom_factor))>>,
            !.scale = new_scale])

(* handle_wheel without the zoom limits. *)
handle_wheel_unclamped(self, delta_y, mouse_x, mouse_y) ==
    LET zoom_factor == IF delta_y > 0 THEN R(9, 10) ELSE R(11, 10)
        new_scale == RMul(self.scale, zoom_factor)
        scale_change == RDiv(new_scale, self.scale)
    IN  render([self EXCEPT
            !.offset = <<RSub(F(mouse_x), RMul(RSub(F(mouse_x), self.offset[1]), scale_change)),
                         RSub(F(mouse_y), RMul(RSub(F(mouse_y), self.offset[2]), scale_change))>>,
            !.scale = new_scale])

handle_wheel(self, delta_y, mouse_x, mouse_y) ==
    LET zoom_factor == IF delta_y > 0 THEN R(9, 10) ELSE R(11, 10)
        new_scale == RClamp(RMul(self.scale, zoom_factor), SCALE_MIN, SCALE_MAX)
        scale_change == RDiv(new_scale, self.scale)
    IN  render([self EXCEPT
            !.offset = <<RSub(F(mouse_x), RMul(RSub(F(mouse_x), self.offset[1]), scale_change)),
                         RSub(F(mouse_y), RMul(RSub(F(mouse_y), self.offset[2]), scale_change))>>,
            !.scale = new_scale])

(* handle_drag taking the deltas as graph units: scaled into screen units. *)
handle_drag_scaled(self, delta_x, delta_y) ==
    render([self EXCEPT !.offset = <<RAdd(self.offset[1], RMul(F(delta_x), self.scale)),
                                     RAdd(self.offset[2], RMul(F(delta_y), self.scale))>>])

handle_drag(self, delta_x, delta_y) ==
    render([self EXCEPT !.offset = <<RAdd(self.offset[1], F(delta_x)),
                                     RAdd(self.offset[2], F(delta_y))>>])

fit_to_view(self) == render(fit_to_view_internal(self))

(***************************************************************************)
(* The host: one event at a time, each handler run to completion.          *)
(***************************************************************************)
CanvasSizes == {<<800, 600>>}
WheelDeltas == {-100, 0, 100}
MousePositions == {<<200, 50>>}
DragDeltas == {<<10, -5>>}
FunctionIndices == 0..2
BlockIds == 0..3
EdgeIndices == 0..3

Init ==
    /\ \E cv \in CanvasSizes :
          LET s == New(cv)
          IN  /\ data = s.data
              /\ current_fn_index = s.current_fn_index
              /\ current_block = s.current_block
              /\ selected_edge = s.selected_edge
              /\ path = s.path
              /\ layout = s.layout
              /\ scale = s.scale
              /\ offset = s.offset
              /\ canvas = s.canvas
              /\ frame = s.frame
              /\ drew = s.drew
              /\ layouts = s.layouts
              /\ ret = s.ret
              /\ crashed = s.crashed
    /\ gestures = 0
    /\ layout_func = None
    /\ layout_result = None
    /\ bfs = None
    /\ loops = None

(* The instance as a call finds it. *)
Enter == [Self EXCEPT !.drew = FALSE, !.layouts = 0, !.ret = "unit"]

(* A call that leaves the instance as s. *)
Call(s) ==
    /\ ~crashed
    /\ Len(s.path) <= MaxPath
    /\ data' = s.data
    /\ current_fn_index' = s.current_fn_index
    /\ current_block' = s.current_block
    /\ selected_edge' = s.selected_edge
    /\ path' = s.path
    /\ layout' = s.layout
    /\ scale' = s.scale
    /\ offset' = s.offset
    /\ canvas' = s.canvas
    /\ frame' = s.frame
    /\ drew' = s.drew
    /\ layouts' = s.layouts
    /\ ret' = s.ret
    /\ crashed' = s.crashed
    /\ UNCHANGED <<layout_func, layout_result, bfs, loops>>

LoadJson ==
    /\ \E json \in JsonInputs : Call(load_json(Enter, json))
    /\ UNCHANGED gestures

SelectFunction ==
    /\ \E index \in FunctionIndices : Call(select_function(Enter, index))
    /\ UNCHANGED gestures

GoToBlock ==
    /\ \E block_id \in BlockIds : Call(go_to_block(Enter, block_id))
    /\ UNCHANGED gestures

GoBack ==
    /\ Call(go_back(Enter))
    /\ UNCHANGED gestures

Reset ==
    /\ Call(reset(Enter))
    /\ UNCHANGED gestures

FollowEdge ==
    /\ \E edge_index \in EdgeIndices : Call(follow_edge(Enter, edge_index))
    /\ UNCHANGED gestures

SelectNextEdge ==
    /\ Call(select_next_edge(Enter))
    /\ UNCHANGED gestures

SelectPrevEdge ==
    /\ Call(select_prev_edge(Enter))
    /\ UNCHANGED gestures

HandleKey ==
    /\ \E key \in Keys : Call(handle_key(Enter, key))
    /\ UNCHANGED gestures

HandleWheel ==
    /\ gestures < MaxGestures
    /\ \E delta_y \in WheelDeltas, m \in MousePositions :
          Call(handle_wheel(Enter, delta_y, m[1], m[2]))
    /\ gestures' = gestures + 1

HandleDrag ==
    /\ gestures < MaxGestures
    /\ \E d \in DragDeltas : Call(handle_drag(Enter, d[1], d[2]))
    /\ gestures' = gestures + 1

FitToView ==
    /\ Call(fit_to_view(Enter))
    /\ UNCHANGED gestures

Render ==
    /\ Call(render(Enter))
    /\ UNCHANGED gestures

Next ==
    \/ LoadJson
    \/ SelectFunction
    \/ GoToBlock
    \/ GoBack
    \/ Reset
    \/ FollowEdge
    \/ SelectNextEdge
    \/ SelectPrevEdge
    \/ HandleKey
    \/ HandleWheel
    \/ HandleDrag
    \/ FitToView
    \/ Render

Spec == Init /\ [][Next]_vars

(***************************************************************************)
(* The controller under the keyboard and the navigation commands alone: no *)
(* wheel and no drag event arrives, so the viewport is as the last fit or  *)
(* centering left it.                                                      *)
(***************************************************************************)
NavNext ==
    \/ LoadJson
    \/ SelectFunction
    \/ GoToBlock
    \/ GoBack
    \/ Reset
    \/ FollowEdge
    \/ SelectNextEdge
    \/ SelectPrevEdge
    \/ HandleKey
    \/ FitToView
    \/ Render

NavSpec == Init /\ [][NavNext]_vars

(***************************************************************************)
(* The controller when the host never calls go_to_block: blocks are        *)
(* reached through load, select_function, reset, follow_edge, go_back, the *)
(* edge selection and the keys alone.                                      *)
(***************************************************************************)
TrailNext ==
    \/ LoadJson
    \/ SelectFunction
    \/ GoBack
    \/ Reset
    \/ FollowEdge
    \/ SelectNextEdge
    \/ SelectPrevEdge
    \/ HandleKey
    \/ FitToView
    \/ Render

TrailSpec == Init /\ [][TrailNext]_vars

(***************************************************************************)
(* The layout run by itself: GraphLayout::from_function on a FunctionDoc,  *)
(* each run meeting some iteration order of layer_map.                     *)
(***************************************************************************)
controller == <<data, current_fn_index, current_block, selected_edge, path, layout,
                scale, offset, canvas, frame, drew, layouts, ret, gestures>>

LayoutInit ==
    /\ \E cv \in CanvasSizes :
          LET s == New(cv)
          IN  /\ data = s.data
              /\ current_fn_index = s.current_fn_index
              /\ current_block = s.current_block
              /\ selected_edge = s.selected_edge
              /\ path = s.path
              /\ layout = s.layout
              /\ scale = s.scale
              /\ offset = s.offset
              /\ canvas = s.canvas
              /\ frame = s.frame
              /\ drew = s.drew
              /\ layouts = s.layouts
              /\ ret = s.ret
              /\ crashed = s.crashed
    /\ gestures = 0
    /\ layout_func \in {Some(f) : f \in LayoutInputs(MaxBlocks, MaxEdges)}
    /\ layout_result = None
    /\ bfs = None
    /\ loops = None

FromFunction ==
    /\ ~crashed
    /\ layout_func # None
    /\ IF FromFunctionPanics(layout_func[1])
       THEN crashed' = TRUE /\ UNCHANGED layout_result
       ELSE /\ \E lay \in from_function_any(layout_func[1]) :
                  layout_result' = Some(lay)
            /\ UNCHANGED crashed
    /\ UNCHANGED <<controller, layout_func, bfs, loops>>

LayoutNext == FromFunction

LayoutSpec == LayoutInit /\ [][LayoutNext]_vars

(***************************************************************************)
(* The viewport by itself: wheel and drag events on a controller whose     *)
(* scale and offset earlier gestures and fits have left anywhere between   *)
(* the zoom limits.                                                        *)
(***************************************************************************)
ViewportScales == {R(1, 5), R(11, 50), R(1, 2), F(1), F(2), R(14, 5), F(3)}
ViewportOffsets == {<<F(0), F(0)>>, <<F(40), F(16)>>, <<R(-61, 2), F(7)>>}
PointerPositions == {<<0, 0>>, <<20, 5>>, <<79, 59>>}

ViewportInit ==
    /\ \E cv \in CanvasSizes :
          LET s == New(cv)
          IN  /\ data = s.data
              /\ current_fn_index = s.current_fn_index
              /\ current_block = s.current_block
              /\ selected_edge = s.selected_edge
              /\ path = s.path
              /\ layout = s.layout
              /\ canvas = s.canvas
              /\ frame = s.frame
              /\ drew = s.drew
              /\ layouts = s.layouts
              /\ ret = s.ret
              /\ crashed = s.crashed
    /\ scale \in ViewportScales
    /\ offset \in ViewportOffsets
    /\ gestures = 0
    /\ layout_func = None
    /\ layout_result = None
    /\ bfs = None
    /\ loops = None

Zoom ==
    /\ gestures < MaxGestures
    /\ \E delta_y \in WheelDeltas, m \in PointerPositions :
          Call(handle_wheel(Enter, delta_y, m[1], m[2]))
    /\ gestures' = gestures + 1

ViewportNext == Zoom \/ HandleDrag

ViewportSpec == ViewportInit /\ [][ViewportNext]_vars

(***************************************************************************)
(* The controller on canvases of several sizes, among them canvases        *)
(* smaller than twice the fit padding and a canvas without extent, with    *)
(* the scale where earlier wheel events at the canvas origin have left it: *)
(* documents are loaded, functions selected, and the viewport zoomed,      *)
(* dragged and fitted.                                                     *)
(***************************************************************************)
FitCanvasSizes == {<<800, 600>>, <<400, 300>>, <<100, 80>>, <<0, 0>>}

FitInit ==
    /\ \E cv \in FitCanvasSizes :
          LET s == New(cv)
          IN  /\ data = s.data
              /\ current_fn_index = s.current_fn_index
              /\ current_block = s.current_block
              /\ selected_edge = s.selected_edge
              /\ path = s.path
              /\ layout = s.layout
              /\ offset = s.offset
              /\ canvas = s.canvas
              /\ frame = s.frame
              /\ drew = s.drew
              /\ layouts = s.layouts
              /\ ret = s.ret
              /\ crashed = s.crashed
    /\ scale \in ViewportScales
    /\ gestures = 0
    /\ layout_func = None
    /\ layout_result = None
    /\ bfs = None
    /\ loops = None

FitNext ==
    \/ LoadJson
    \/ SelectFunction
    \/ HandleWheel
    \/ HandleDrag
    \/ FitToView

FitSpec == FitInit /\ [][FitNext]_vars

(***************************************************************************)
(* compute_layers step by step, as from_function calls it (a FunctionDoc   *)
(* without blocks has returned before): one step enters the function, one  *)
(* runs an iteration of `while let Some(..) = queue.pop_front()`, one runs *)
(* the code after the loop and returns.  pushed lists the ids given to     *)
(* queue.push_back so far.                                                 *)
(***************************************************************************)
ComputeLayersInit ==
    /\ \E cv \in CanvasSizes :
          LET s == New(cv)
          IN  /\ data = s.data
              /\ current_fn_index = s.current_fn_index
              /\ current_block = s.current_block
              /\ selected_edge = s.selected_edge
              /\ path = s.path
              /\ layout = s.layout
              /\ scale = s.scale
              /\ offset = s.offset
              /\ canvas = s.canvas
              /\ frame = s.frame
              /\ drew = s.drew
              /\ layouts = s.layouts
              /\ ret = s.ret
              /\ crashed = s.crashed
    /\ gestures = 0
    /\ layout_func \in {Some(f) : f \in {g \in LayoutInputs(MaxBlocks, MaxEdges) :
                                            Len(g.blocks) > 0}}
    /\ layout_result = None
    /\ bfs = None
    /\ loops = None

ComputeLayersEnter ==
    /\ bfs = None
    /\ bfs' = Some([queue |-> << <<layout_func[1].entry_block, 0>> >>,
                    visited |-> {layout_func[1].entry_block},
                    layer_map |-> <<>>,
                    pushed |-> <<layout_func[1].entry_block>>,
                    layers |-> None])
    /\ UNCHANGED <<controller, crashed, layout_func, layout_result, loops>>

ComputeLayersWhile ==
    /\ bfs # None
    /\ bfs[1].queue # <<>>
    /\ LET st == WhileBody(Successors(layout_func[1]), bfs[1].queue, bfs[1].visited,
                           bfs[1].layer_map)
           kept == Len(bfs[1].queue) - 1
       IN  bfs' = Some([bfs[1] EXCEPT
                           !.queue = st.queue,
                           !.visited = st.visited,
                           !.layer_map = st.layer_map,
                           !.pushed = @ \o [i \in 1..(Len(st.queue) - kept) |->
                                               st.queue[kept + i][1]]])
    /\ UNCHANGED <<controller, crashed, layout_func, layout_result, loops>>

ComputeLayersReturn ==
    /\ bfs # None
    /\ bfs[1].queue = <<>>
    /\ bfs[1].layers = None
    /\ LET layer_map == WithUnreached(bfs[1].layer_map, Len(layout_func[1].blocks))
       IN  \E order \in KeyOrders(layer_map) :
              bfs' = Some([bfs[1] EXCEPT !.layer_map = layer_map,
                                         !.layers = Some(GroupAndSort(layer_map, order))])
    /\ UNCHANGED <<controller, crashed, layout_func, layout_result, loops>>

ComputeLayersNext == ComputeLayersEnter \/ ComputeLayersWhile \/ ComputeLayersReturn

(* The code runs on: a step that can be taken is taken. *)
ComputeLayersSpec ==
    ComputeLayersInit /\ [][ComputeLayersNext]_vars /\ WF_vars(ComputeLayersNext)

(***************************************************************************)
(* detect_loops step by step: one step starts the next round of            *)
(* `for start in 0..body.blocks.len()`, one runs an iteration of the inner *)
(* while loop, one leaves the while loop on an empty stack, one returns.   *)
(***************************************************************************)
DetectLoopsInit ==
    /\ \E cv \in CanvasSizes :
          LET s == New(cv)
          IN  /\ data = s.data
              /\ current_fn_index = s.current_fn_index
              /\ current_block = s.current_block
              /\ selected_edge = s.selected_edge
              /\ path = s.path
              /\ layout = s.layout
              /\ scale = s.scale
              /\ offset = s.offset
              /\ canvas = s.canvas
              /\ frame = s.frame
              /\ drew = s.drew
              /\ layouts = s.layouts
              /\ ret = s.ret
              /\ crashed = s.crashed
    /\ gestures = 0
    /\ layout_func = None
    /\ layout_result = None
    /\ bfs = None
    /\ \E successors \in Bodies(MaxBlocks, MaxEdges) :
          loops = Some([successors |-> successors, start |-> 0, in_while |-> FALSE,
                        visited |-> {}, stack |-> <<>>, loop_blocks |-> {},
                        returned |-> FALSE])

DetectLoopsFor ==
    /\ ~loops[1].in_while
    /\ loops[1].start < Len(loops[1].successors)
    /\ loops' = Some([loops[1] EXCEPT
                         !.in_while = TRUE,
                         !.visited = {},
                         !.stack = At(loops[1].successors, loops[1].start)])
    /\ UNCHANGED <<controller, crashed, layout_func, layout_result, bfs>>

DetectLoopsWhile ==
    /\ loops[1].in_while
    /\ loops[1].stack # <<>>
    /\ LET st == WhileLet(loops[1].successors, loops[1].start, loops[1].visited,
                          loops[1].stack, loops[1].loop_blocks)
       IN  loops' = Some([loops[1] EXCEPT
                             !.visited = st.visited,
                             !.stack = st.stack,
                             !.loop_blocks = st.loop_blocks,
                             !.in_while = ~st.break,
                             !.start = IF st.break THEN @ + 1 ELSE @])
    /\ UNCHANGED <<controller, crashed, layout_func, layout_result, bfs>>

DetectLoopsWhileEnd ==
    /\ loops[1].in_while
    /\ loops[1].stack = <<>>
    /\ loops' = Some([loops[1] EXCEPT !.in_while = FALSE, !.start = @ + 1])
    /\ UNCHANGED <<controller, crashed, layout_func, layout_result, bfs>>

DetectLoopsReturn ==
    /\ ~loops[1].in_while
    /\ loops[1].start = Len(loops[1].successors)
    /\ ~loops[1].returned
    /\ loops' = Some([loops[1] EXCEPT !.returned = TRUE])
    /\ UNCHANGED <<controller, crashed, layout_func, layout_result, bfs>>

DetectLoopsNext ==
    \/ DetectLoopsFor
    \/ DetectLoopsWhile
    \/ DetectLoopsWhileEnd
    \/ DetectLoopsReturn

(* The code runs on: a step that can be taken is taken. *)
DetectLoopsSpec ==
    DetectLoopsInit /\ [][DetectLoopsNext]_vars /\ WF_vars(DetectLoopsNext)

(***************************************************************************)
(* Queries used to state the properties.                                   *)
(***************************************************************************)
function_count(self) == IF self.data = None THEN 0 ELSE Len(self.data[1].functions)

function_name(self, index) ==
    IF self.data = None THEN None
    ELSE IF InRange(self.data[1].functions, index)
         THEN Some(At(self.data[1].functions, index).short_name)
         ELSE None

crate_name(self) == IF self.data = None THEN None ELSE Some(self.data[1].name)

(* What a query returns when `data.functions[self.current_fn_index]` is    *)
(* out of range.                                                           *)
IndexPanic == <<"panic", "index out of bounds">>

(* The JSON text is modelled by the value serialized, over the fields of   *)
(* the block the model carries.                                            *)
get_block_info_json(self) ==
    IF self.data = None THEN None
    ELSE IF ~InRange(self.data[1].functions, self.current_fn_index) THEN IndexPanic
    ELSE LET func == CurrentFunc(self)
         IN  IF ~InRange(func.blocks, self.current_block) THEN None
             ELSE LET block == At(func.blocks, self.current_block)
                  IN  Some([id |-> block.id, role |-> block.role,
                            terminator |-> [edges |-> block.terminator.edges],
                            path |-> self.path,
                            selected_edge |-> self.selected_edge])

(* The locals are not part of the model: the text returned is stood for by *)
(* the function whose locals it lists.                                     *)
get_locals_json(self) ==
    IF self.data = None THEN None
    ELSE IF ~InRange(self.data[1].functions, self.current_fn_index) THEN IndexPanic
    ELSE Some([locals_of |-> CurrentFunc(self).short_name])

(* The block count of the selected function; 0 before a document is loaded. *)
BlockCount(self) == IF self.data = None THEN 0 ELSE Len(CurrentFunc(self).blocks)

(* The outgoing-edge count of the current block; 0 when there is no such block. *)
OutgoingCount(self) ==
    IF self.data = None THEN 0
    ELSE IF ~InRange(CurrentFunc(self).blocks, self.current_block) THEN 0
    ELSE Len(At(CurrentFunc(self).blocks, self.current_block).terminator.edges)

(* A document satisfying the data-model invariants is loaded. *)
ValidLoaded == data # None /\ ValidData(data[1])

LoadErrors == {"err_parse", "err_empty"}

(* The call returned normally and left every field of the controller alone. *)
NoOp(s) ==
    Fields(s) = Fields(Self) /\ ~s.crashed /\ ~s.drew /\ s.layouts = 0 /\ s.frame = frame

(***************************************************************************)
(* C1: with a document satisfying the data-model invariants loaded, the    *)
(* selected edge index is below the outgoing-edge count of the current     *)
(* block, or 0 when that block has no outgoing edge; before any load it is *)
(* 0.                                                                      *)
(***************************************************************************)
C1_SelectedEdgeValid ==
    /\ data = None => selected_edge = 0
    /\ ValidLoaded =>
          /\ InRange(CurrentFunc(Self).blocks, current_block)
          /\ OutgoingCount(Self) > 0 => selected_edge < OutgoingCount(Self)
          /\ OutgoingCount(Self) = 0 => selected_edge = 0

(* A valid document, the last edge of a three-edge block selected. *)
C1_Witness ==
    /\ ValidLoaded
    /\ OutgoingCount(Self) = 3
    /\ selected_edge = 2
    /\ path # <<>>

(***************************************************************************)
(* C2: the top of the path differs from the current block and no two       *)
(* adjacent path entries are equal.                                        *)
(***************************************************************************)
C2_PathNoDuplicates ==
    /\ path # <<>> => Last(path) # current_block
    /\ \A i \in 1..(Len(path) - 1) : path[i] # path[i + 1]

(* Two blocks were left behind, one after the other. *)
C2_Witness == Len(path) >= 2 /\ ~crashed

(***************************************************************************)
(* C3: a load of a malformed document or of one with zero functions        *)
(* returns an error, and a load that returns an error leaves the document, *)
(* selected function, current block, selected edge, path, layout, scale    *)
(* and offset as they were and renders nothing.                            *)
(***************************************************************************)
C3_FailedLoadChangesNothing ==
    ~crashed =>
        \A json \in JsonInputs :
            LET s == load_json(Enter, json)
            IN  /\ (~json.wellformed \/ json.value.functions = <<>>) => s.ret \in LoadErrors
                /\ s.ret \in LoadErrors => NoOp(s)

(* A load has just failed on an instance that holds a document and a path. *)
C3_Witness ==
    /\ ret \in LoadErrors
    /\ data # None
    /\ path # <<>>
    /\ ~drew

(***************************************************************************)
(* C4: load rejects every document in which an entry_block or an edge      *)
(* target is out of range, so the installed document always satisfies the  *)
(* bounds.                                                                 *)
(***************************************************************************)
C4_LoadValidatesBounds == data # None => ValidData(data[1])

(***************************************************************************)
(* C5: once load has accepted a document, no operation panics.             *)
(***************************************************************************)
LoadAccepts(d) == d.functions # <<>> /\ ~LayoutOf[d.functions[1]].panics

C5_NoPanic == (data # None /\ LoadAccepts(data[1])) => ~crashed

(***************************************************************************)
(* C6: select_function, go_to_block and follow_edge with an out-of-range   *)
(* argument return normally and leave the whole state unchanged.           *)
(***************************************************************************)
C6_OutOfRangeIsNoOp ==
    ~crashed =>
        /\ \A i \in FunctionIndices :
              i >= function_count(Self) => NoOp(select_function(Enter, i))
        /\ \A b \in BlockIds :
              b >= BlockCount(Self) => NoOp(go_to_block(Enter, b))
        /\ \A e \in EdgeIndices :
              e >= OutgoingCount(Self) => NoOp(follow_edge(Enter, e))

(***************************************************************************)
(* C7: a load of a document with at least one function succeeds and leaves *)
(* function 0 selected, its entry block current, the path empty, edge 0    *)
(* selected and the layout of function 0 cached; a load of a document with *)
(* zero functions does not succeed.                                        *)
(***************************************************************************)
LoadSelectsFunctionZero(s, json) ==
    LET func == json.value.functions[1]
    IN  /\ s.ret = "ok"
        /\ s.data = Some(json.value)
        /\ s.current_fn_index = 0
        /\ s.current_block = func.entry_block
        /\ s.path = <<>>
        /\ s.selected_edge = 0
        /\ s.layout = Some(from_function(func))

C7_LoadSelectsFunctionZero ==
    [][\A json \in JsonInputs :
          (json.wellformed /\ Call(load_json(Enter, json))) =>
              IF json.value.functions = <<>>
              THEN ret' # "ok"
              ELSE LoadSelectsFunctionZero(Self', json)]_vars

(* The same on the documents that satisfy the data-model invariants, from  *)
(* every state.                                                            *)
LoadSelectsFunctionZeroOnValid ==
    ~crashed =>
        \A json \in JsonInputs :
            (json.wellformed /\ json.value.functions # <<>> /\ ValidData(json.value))
                => LoadSelectsFunctionZero(load_json(Enter, json), json)

(***************************************************************************)
(* C8 as stated: for every block id X of the selected function,            *)
(* go_to_block(X) followed by go_back() leaves the current block as it     *)
(* was.                                                                    *)
(***************************************************************************)
C8_GoBackUndoesGoTo_AnyBlock ==
    ~crashed =>
        \A X \in BlockIds :
            X < BlockCount(Self) =>
                go_back(go_to_block(Enter, X)).current_block = current_block

(***************************************************************************)
(* C8, amended: for every block id X of the selected function other than   *)
(* the current block, go_to_block(X) followed by go_back() leaves the      *)
(* current block and the path as they were.                                *)
(***************************************************************************)
C8_GoBackUndoesGoTo ==
    ~crashed =>
        \A X \in BlockIds :
            (X < BlockCount(Self) /\ X # current_block) =>
                LET s == go_back(go_to_block(Enter, X))
                IN  s.current_block = current_block /\ s.path = path /\ ~s.crashed

(* There is another block to go to, and a path the go_back could pop wrongly. *)
C8_Witness ==
    /\ ~crashed
    /\ path # <<>>
    /\ \E X \in BlockIds : X < BlockCount(Self) /\ X # current_block
    /\ go_to_block(Enter, 0).path = Append(path, current_block)

(***************************************************************************)
(* C9: go_back() with a non-empty path removes exactly its top entry,      *)
(* makes that entry the current block and selects edge 0; with an empty    *)
(* path it changes nothing, however often it is called.                    *)
(***************************************************************************)
C9_GoBackPops ==
    ~crashed =>
        LET s == go_back(Enter)
        IN  /\ path # <<>> =>
                  /\ s.path = Front(path)
                  /\ s.current_block = Last(path)
                  /\ s.selected_edge = 0
                  /\ s.data = data /\ s.current_fn_index = current_fn_index
                  /\ s.layout = layout /\ s.scale = scale
                  /\ ~s.crashed
            /\ path = <<>> => NoOp(s) /\ NoOp(go_back(s)) /\ NoOp(go_back(go_back(s)))

(* A path to pop and a selected edge to clear. *)
C9_Witness == ~crashed /\ Len(path) = 2 /\ selected_edge > 0

(***************************************************************************)
(* C10: when the current block has an outgoing edge, select_next_edge()    *)
(* followed by select_prev_edge() gives back the selected edge index, the  *)
(* current block and the path.                                             *)
(***************************************************************************)
C10_NextThenPrev ==
    (~crashed /\ OutgoingCount(Self) >= 1) =>
        LET s == select_prev_edge(select_next_edge(Enter))
        IN  /\ s.selected_edge = selected_edge
            /\ s.current_block = current_block
            /\ s.path = path
            /\ ~s.crashed

(* The last edge of a block with several edges is selected: next wraps to 0. *)
C10_Witness ==
    /\ ~crashed
    /\ OutgoingCount(Self) >= 2
    /\ selected_edge = OutgoingCount(Self) - 1
    /\ select_next_edge(Enter).selected_edge = 0

(***************************************************************************)
(* C11: when the current block has an i-th outgoing edge with target t,    *)
(* follow_edge(i) does exactly what go_to_block(t) does: t becomes the     *)
(* current block, the block left is appended to the path when t differs    *)
(* from it, edge 0 is selected; and when t differs from the block left, a  *)
(* following go_back() restores the current block and the path.            *)
(***************************************************************************)
EdgeTarget(self, i) ==
    At(At(CurrentFunc(self).blocks, self.current_block).terminator.edges, i).target

C11_FollowEdgeIsGoTo ==
    ~crashed =>
        \A i \in EdgeIndices :
            i < OutgoingCount(Self) =>
                LET t == EdgeTarget(Self, i)
                    s == follow_edge(Enter, i)
                IN  /\ s = go_to_block(Enter, t)
                    /\ ~s.crashed
                    /\ s.current_block = t
                    /\ s.selected_edge = 0
                    /\ s.path = IF t # current_block THEN Append(path, current_block)
                                ELSE path
                    /\ t # current_block =>
                          /\ go_back(s).current_block = current_block
                          /\ go_back(s).path = path

(* The three-block scenario: at block 0 of the branching function with an  *)
(* empty path, follow_edge(1) gives current = 2 and path = [0], and        *)
(* go_back() gives current = 0 and path = [].                              *)
C11_Witness ==
    /\ ~crashed
    /\ data # None /\ CurrentFunc(Self) = FnBranch
    /\ current_block = 0 /\ path = <<>>
    /\ follow_edge(Enter, 1).current_block = 2
    /\ follow_edge(Enter, 1).path = <<0>>
    /\ go_back(follow_edge(Enter, 1)).current_block = 0
    /\ go_back(follow_edge(Enter, 1)).path = <<>>

(***************************************************************************)
(* C12: for a FunctionDoc with N blocks that satisfies the data-model      *)
(* invariants the layout has exactly N nodes, node k has id k, and the     *)
(* bounding box contains every node rectangle; for N = 0 the layout has no *)
(* nodes, no edges and the zero bounding box.                              *)
(***************************************************************************)
InsideBounds(node, bounds) ==
    /\ RLe(bounds[1], node.x)
    /\ RLe(bounds[2], node.y)
    /\ RLe(RAdd(node.x, node.width), bounds[3])
    /\ RLe(RAdd(node.y, node.height), bounds[4])

C12_LayoutCoversBlocks ==
    layout_result # None =>
        LET func == layout_func[1]
            lay == layout_result[1]
            N == Len(func.blocks)
        IN  /\ ValidFunction(func) =>
                  /\ Len(lay.nodes) = N
                  /\ \A k \in 0..(N - 1) :
                        /\ At(lay.nodes, k).id = k
                        /\ InsideBounds(At(lay.nodes, k), lay.bounds)
            /\ N = 0 => /\ lay.nodes = <<>>
                        /\ lay.edges = <<>>
                        /\ lay.bounds = <<F(0), F(0), F(0), F(0)>>

(* The layout of a valid three-block function with two nodes side by side: *)
(* the box is wider than any one node.                                     *)
C12_Witness ==
    /\ layout_result # None
    /\ ValidFunction(layout_func[1])
    /\ Len(layout_result[1].nodes) = 3
    /\ \E j, k \in 1..3 :
          /\ layout_result[1].nodes[j].y = layout_result[1].nodes[k].y
          /\ RLt(layout_result[1].nodes[j].x, layout_result[1].nodes[k].x)
    /\ RLt(F(NODE_WIDTH), RSub(layout_result[1].bounds[3], layout_result[1].bounds[1]))

(***************************************************************************)
(* C13: in the layout of a FunctionDoc that satisfies the data-model       *)
(* invariants the entry block is in layer 0 (y = 0), every block reachable *)
(* from the entry is in the layer equal to its shortest-path distance from *)
(* the entry, one more than the layer of a predecessor, and the blocks not *)
(* reachable from the entry are all in layer (largest reachable layer + 1).*)
(***************************************************************************)
TargetsOf(func, S) ==
    UNION {{At(func.blocks, b).terminator.edges[e].target :
               e \in 1..Len(At(func.blocks, b).terminator.edges)} : b \in S}

(* The blocks at distance d, d + 1, ... from the entry, with their distance; *)
(* frontier holds the blocks at distance d, seen those at distance <= d.     *)
RECURSIVE Distances(_, _, _, _)
Distances(func, frontier, seen, d) ==
    IF frontier = {} THEN <<>>
    ELSE LET next == TargetsOf(func, frontier) \ seen
         IN  [n \in frontier |-> d] @@ Distances(func, next, seen \cup next, d + 1)

LayerY(layer) == F(layer * VERTICAL_SPACING)

C13_LayersAreBfsDistances ==
    (layout_result # None /\ ValidFunction(layout_func[1])) =>
        LET func == layout_func[1]
            nodes == layout_result[1].nodes
            dist == Distances(func, {func.entry_block}, {func.entry_block}, 0)
            reachable == DOMAIN dist
            max_layer == SetMax({dist[n] : n \in reachable})
        IN  /\ At(nodes, func.entry_block).y = F(0)
            /\ \A n \in reachable :
                  /\ At(nodes, n).y = LayerY(dist[n])
                  /\ n # func.entry_block =>
                        \E q \in reachable :
                            /\ n \in TargetsOf(func, {q})
                            /\ At(nodes, n).y = LayerY(dist[q] + 1)
            /\ \A n \in 0..(Len(func.blocks) - 1) :
                  n \notin reachable => At(nodes, n).y = LayerY(max_layer + 1)

(* The layout of the island function: block 1 one step from the entry in   *)
(* layer 1, the unreachable blocks 2 and 3 together in layer 2.            *)
C13_Witness ==
    /\ layout_result # None
    /\ layout_func = Some(FnIsland)
    /\ At(layout_result[1].nodes, 1).y = LayerY(1)
    /\ At(layout_result[1].nodes, 2).y = LayerY(2)
    /\ At(layout_result[1].nodes, 3).y = LayerY(2)

(***************************************************************************)
(* C14: the layout is deterministic: every run of the layout on the same   *)
(* FunctionDoc, whatever order the map of block-to-layer assignments is    *)
(* iterated in when the layers are grouped, yields the node positions and  *)
(* the edge point lists of every other run.                                *)
(***************************************************************************)
C14_LayoutDeterministic ==
    layout_result # None =>
        \A lay \in from_function_any(layout_func[1]) :
            /\ lay.nodes = layout_result[1].nodes
            /\ lay.edges = layout_result[1].edges
            /\ lay = layout_result[1]

(* A run on the branching function: two iteration orders push the two      *)
(* blocks of layer 1 in different orders, so that only the sort makes the  *)
(* layers equal.                                                           *)
C14_Witness ==
    /\ layout_result # None
    /\ layout_func = Some(FnBranch)
    /\ LET layer_map == LayerMap(FnBranch.entry_block, Len(FnBranch.blocks),
                                 Successors(FnBranch))
           empty == [l \in 1..2 |-> <<>>]
       IN  /\ GroupByLayer(layer_map, <<0, 1, 2>>, empty)[2] = <<1, 2>>
           /\ GroupByLayer(layer_map, <<2, 1, 0>>, empty)[2] = <<2, 1>>
           /\ GroupAndSort(layer_map, <<2, 1, 0>>)[2] = <<1, 2>>
    /\ layout_result[1].edges # <<>>

(***************************************************************************)
(* C15: the layout is computed only by a successful function selection     *)
(* (select_function with a valid index, the one load performs included),   *)
(* exactly once per such call, and go_to_block, go_back, reset,            *)
(* follow_edge, select_next_edge, select_prev_edge, handle_key,            *)
(* handle_wheel, handle_drag, fit_to_view and render neither compute a     *)
(* layout nor change the cached one.                                       *)
(***************************************************************************)
KeepsLayout(s) == s.layouts = 0 /\ s.layout = layout

C15_LayoutOncePerSelection ==
    ~crashed =>
        /\ \A index \in FunctionIndices :
              LET s == select_function(Enter, index)
              IN  IF ~s.crashed /\ index < function_count(Self)
                  THEN /\ s.layouts = 1
                       /\ s.layout = Some(LayoutOf[At(data[1].functions, index)].layout)
                  ELSE KeepsLayout(s)
        /\ \A json \in JsonInputs :
              LET s == load_json(Enter, json)
              IN  IF s.ret = "ok"
                  THEN /\ s.layouts = 1
                       /\ s.layout = Some(LayoutOf[json.value.functions[1]].layout)
                  ELSE KeepsLayout(s)
        /\ \A block_id \in BlockIds : KeepsLayout(go_to_block(Enter, block_id))
        /\ KeepsLayout(go_back(Enter))
        /\ KeepsLayout(reset(Enter))
        /\ \A edge_index \in EdgeIndices : KeepsLayout(follow_edge(Enter, edge_index))
        /\ KeepsLayout(select_next_edge(Enter))
        /\ KeepsLayout(select_prev_edge(Enter))
        /\ \A key \in Keys : KeepsLayout(handle_key(Enter, key))
        /\ \A delta_y \in WheelDeltas, m \in MousePositions :
              KeepsLayout(handle_wheel(Enter, delta_y, m[1], m[2]))
        /\ \A d \in DragDeltas : KeepsLayout(handle_drag(Enter, d[1], d[2]))
        /\ KeepsLayout(fit_to_view(Enter))
        /\ KeepsLayout(render(Enter))

(* A selection has just computed the layout of the second function of a    *)
(* document, replacing the cached one of the first.                        *)
C15_Witness ==
    /\ ~crashed
    /\ layouts = 1
    /\ current_fn_index = 1
    /\ layout = Some(LayoutOf[FnLoop].layout)
    /\ reset(Enter).layout = layout

(***************************************************************************)
(* C16: every operation that changes the selected function, the current    *)
(* block, the selected edge, the path, the scale or the offset ends by     *)
(* rendering, and the queries neither render nor change state: after each  *)
(* handler has returned, the frame last rendered is the one a render of    *)
(* the current state draws.                                                *)
(***************************************************************************)
C16_FrameIsCurrent == ~crashed => frame = render(Self).frame

(* The same while the document loaded satisfies the data-model invariants. *)
FrameIsCurrentOnValid ==
    (~crashed /\ (data # None => ValidData(data[1]))) => frame = render(Self).frame

(***************************************************************************)
(* C17: handle_key(k) returns false exactly when k maps to FocusSearch or  *)
(* to None, and then changes no state and renders nothing; for every key   *)
(* bound to a navigation command it returns true, also when the command    *)
(* has nothing to do.                                                      *)
(***************************************************************************)
Unhandled == {"FocusSearch", "None"}

C17_HandledExactlyWhenBound ==
    [][\A key \in Keys :
          Call(handle_key(Enter, key)) =>
              IF parse_key(key).action \in Unhandled
              THEN /\ ret' = "false"
                   /\ Fields(Self') = Fields(Self)
                   /\ ~drew' /\ frame' = frame
              ELSE ret' = "true"]_vars

(* The same while the document loaded satisfies the data-model invariants. *)
HandledExactlyWhenBoundOnValid ==
    (~crashed /\ (data # None => ValidData(data[1]))) =>
        \A key \in AllKeys :
            LET s == handle_key(Enter, key)
            IN  /\ parse_key(key).action \in Unhandled => s.ret = "false" /\ NoOp(s)
                /\ parse_key(key).action \notin Unhandled => s.ret = "true"

(***************************************************************************)
(* C18: from every state handle_key has the effect of the command the key  *)
(* is bound to: h, ArrowLeft, Backspace of go_back(); j, ArrowDown of      *)
(* select_next_edge(); k, ArrowUp of select_prev_edge(); l, ArrowRight,    *)
(* Enter of follow_edge(selected edge); Escape of reset(); the digit d in  *)
(* 1..9 of follow_edge(d - 1).                                             *)
(***************************************************************************)
SameEffect(s, t) ==
    /\ Fields(s) = Fields(t)
    /\ s.frame = t.frame
    /\ s.drew = t.drew
    /\ s.layouts = t.layouts
    /\ s.crashed = t.crashed

C18_KeyIsItsCommand ==
    ~crashed =>
        /\ \A key \in {"h", "ArrowLeft", "Backspace"} :
              SameEffect(handle_key(Enter, key), go_back(Enter))
        /\ \A key \in {"j", "ArrowDown"} :
              SameEffect(handle_key(Enter, key), select_next_edge(Enter))
        /\ \A key \in {"k", "ArrowUp"} :
              SameEffect(handle_key(Enter, key), select_prev_edge(Enter))
        /\ \A key \in {"l", "ArrowRight", "Enter"} :
              SameEffect(handle_key(Enter, key), follow_edge(Enter, selected_edge))
        /\ SameEffect(handle_key(Enter, "Escape"), reset(Enter))
        /\ \A d \in 1..9 :
              SameEffect(handle_key(Enter, Digits[d]), follow_edge(Enter, d - 1))

(* A key has just been handled and left the second of three edges selected *)
(* with a path behind: "l" and "2" follow that edge, "1" another.          *)
C18_Witness ==
    /\ ~crashed
    /\ ret = "true"
    /\ path # <<>>
    /\ selected_edge = 1
    /\ OutgoingCount(Self) = 3
    /\ handle_key(Enter, "l").current_block = EdgeTarget(Self, 1)
    /\ handle_key(Enter, "2").current_block = EdgeTarget(Self, 1)
    /\ handle_key(Enter, "1").current_block # EdgeTarget(Self, 1)
    /\ handle_key(Enter, "h").path = Front(path)

(***************************************************************************)
(* The offset that maps the centre of a node to the centre of the canvas   *)
(* at scale sc.                                                            *)
(***************************************************************************)
CenteringOffset(node, cv, sc) ==
    <<RSub(R(cv[1], 2), RMul(RAdd(node.x, R(NODE_WIDTH, 2)), sc)),
      RSub(R(cv[2], 2), RMul(RAdd(node.y, R(NODE_HEIGHT, 2)), sc))>>

HasNode(s, block_id) == s.layout # None /\ InRange(s.layout[1].nodes, block_id)

(* s has the offset that centres its current block at its scale. *)
CenteredOnCurrent(s) ==
    /\ HasNode(s, s.current_block)
    /\ s.offset = CenteringOffset(At(s.layout[1].nodes, s.current_block),
                                  s.canvas, s.scale)

(* s, returned by a navigation operation that changed the current block,   *)
(* is centred on the new current block at the scale the operation found.   *)
Recentered(s) ==
    (~s.crashed /\ s.current_block # current_block) =>
        CenteredOnCurrent(s) /\ s.scale = scale

(***************************************************************************)
(* C19 as stated, on documents that satisfy the data-model invariants:     *)
(* whenever go_to_block, follow_edge, go_back, reset or select_function    *)
(* changes the current block, on return the offset is canvas centre minus  *)
(* (node centre of the current block) times scale.                         *)
(***************************************************************************)
C19_RecenteredOnCurrent_AnyNavigation ==
    (~crashed /\ ValidLoaded) =>
        /\ \A block_id \in BlockIds : Recentered(go_to_block(Enter, block_id))
        /\ \A edge_index \in EdgeIndices : Recentered(follow_edge(Enter, edge_index))
        /\ Recentered(go_back(Enter))
        /\ Recentered(reset(Enter))
        /\ \A index \in FunctionIndices :
              LET s == select_function(Enter, index)
              IN  (~s.crashed /\ s.current_block # current_block) => CenteredOnCurrent(s)

(***************************************************************************)
(* C19, amended: whenever go_to_block, follow_edge, go_back or reset       *)
(* changes the current block to one the layout has a node for (every block *)
(* of a document that satisfies the data-model invariants), on return the  *)
(* offset is canvas centre minus (node centre of the current block) times  *)
(* scale, and the scale is as before; select_function does not centre on   *)
(* the entry block, it leaves the viewport as fit_to_view leaves it.       *)
(***************************************************************************)
C19_RecenteredOnCurrent ==
    ~crashed =>
        /\ \A block_id \in BlockIds :
              LET s == go_to_block(Enter, block_id)
              IN  HasNode(s, s.current_block) => Recentered(s)
        /\ \A edge_index \in EdgeIndices :
              LET s == follow_edge(Enter, edge_index)
              IN  HasNode(s, s.current_block) => Recentered(s)
        /\ LET s == go_back(Enter) IN HasNode(s, s.current_block) => Recentered(s)
        /\ LET s == reset(Enter) IN HasNode(s, s.current_block) => Recentered(s)
        /\ ValidLoaded =>
              \A block_id \in BlockIds : HasNode(Self, block_id) <=> block_id < BlockCount(Self)
        /\ \A index \in FunctionIndices :
              LET s == select_function(Enter, index)
                  t == fit_to_view_internal(s)
              IN  (~s.crashed /\ index < function_count(Self)) =>
                      s.scale = t.scale /\ s.offset = t.offset

(* After a zoom, with a block to go back to: go_back moves the viewport    *)
(* to that block at the zoomed scale.                                      *)
C19_Witness ==
    /\ ~crashed
    /\ ValidLoaded
    /\ gestures > 0
    /\ scale \notin {F(1), F(2)}
    /\ path # <<>>
    /\ CenteredOnCurrent(Self)
    /\ go_back(Enter).offset # offset
    /\ go_back(Enter).scale = scale

(***************************************************************************)
(* C20: handle_wheel keeps the graph point under the pointer fixed: for    *)
(* every scale, offset and pointer position p, (p - offset) / scale before *)
(* the call equals (p - offset') / scale' after it, zooming in or out, and *)
(* also when the new scale is clamped at 0.2 or 3.0.                       *)
(***************************************************************************)
GraphPoint(p, off, sc) ==
    <<RDiv(RSub(F(p[1]), off[1]), sc), RDiv(RSub(F(p[2]), off[2]), sc)>>

C20_ZoomKeepsPointUnderPointer ==
    \A delta_y \in WheelDeltas, p \in PointerPositions :
        LET s == handle_wheel(Enter, delta_y, p[1], p[2])
        IN  GraphPoint(p, s.offset, s.scale) = GraphPoint(p, offset, scale)

(* A zoom in from scale 2.8 has just been clamped at 3.0: the offset moved *)
(* by 3.0 / 2.8, not by 1.1.                                               *)
C20_Witness ==
    /\ gestures = 1
    /\ scale = SCALE_MAX
    /\ offset[1][2] = 14

(***************************************************************************)
(* C21: go_to_block(X) with X in range makes X the current block and       *)
(* selects edge 0; it appends the old current block to the path exactly    *)
(* when X differs from it, so that going to the block that is already      *)
(* current leaves the path unchanged, and nothing other than the old       *)
(* current block is ever pushed.                                           *)
(***************************************************************************)
C21_GoToBlockPushesOldCurrent ==
    ~crashed =>
        \A X \in BlockIds :
            X < BlockCount(Self) =>
                LET s == go_to_block(Enter, X)
                IN  /\ ~s.crashed
                    /\ s.current_block = X
                    /\ s.selected_edge = 0
                    /\ X # current_block => s.path = Append(path, current_block)
                    /\ X = current_block => s.path = path
                    /\ s.data = data /\ s.current_fn_index = current_fn_index

(* In the looping function, at block 1 (which has an edge to itself) with  *)
(* blocks left behind: going to block 1 keeps the path, going to block 0   *)
(* appends block 1.                                                        *)
C21_Witness ==
    /\ ~crashed
    /\ data # None /\ CurrentFunc(Self) = FnLoop
    /\ current_block = 1 /\ path = <<1, 0>> /\ selected_edge = 0
    /\ EdgeTarget(Self, 0) = 1
    /\ go_to_block(Enter, 1).path = <<1, 0>>
    /\ go_to_block(Enter, 0).path = <<1, 0, 1>>

(***************************************************************************)
(* C22: after reset() on a loaded document that satisfies the data-model   *)
(* invariants, from any reachable state: the path is empty (nothing was    *)
(* pushed onto it), the current block is the entry block of the selected   *)
(* function, the selected edge is 0, and the selected function, the cached *)
(* layout and the scale are unchanged.                                     *)
(***************************************************************************)
C22_ResetReturnsToEntry ==
    (~crashed /\ ValidLoaded) =>
        LET s == reset(Enter)
        IN  /\ ~s.crashed
            /\ s.path = <<>>
            /\ s.current_block = CurrentFunc(Self).entry_block
            /\ s.selected_edge = 0
            /\ s.data = data
            /\ s.current_fn_index = current_fn_index
            /\ s.layout = layout /\ s.layouts = 0
            /\ s.scale = scale

(* Two blocks behind, away from the entry block, after a zoom. *)
C22_Witness ==
    /\ ~crashed
    /\ ValidLoaded
    /\ Len(path) = 2
    /\ current_block # CurrentFunc(Self).entry_block
    /\ gestures > 0 /\ scale \notin {F(1), F(2)}
    /\ reset(Enter).path = <<>>
    /\ reset(Enter).current_block = CurrentFunc(Self).entry_block
    /\ reset(Enter).scale = scale

(***************************************************************************)
(* C23: select_function(i) with i below the function count selects         *)
(* function i, empties the path, selects edge 0, makes the entry block of  *)
(* function i the current block and replaces the cached layout by the      *)
(* layout of function i, from any prior state, re-selecting the function   *)
(* already selected included.                                              *)
(***************************************************************************)
SelectsFunction(s, prior, index) ==
    LET func == At(prior.data[1].functions, index)
    IN  /\ ~s.crashed
        /\ s.data = prior.data
        /\ s.current_fn_index = index
        /\ s.path = <<>>
        /\ s.selected_edge = 0
        /\ s.current_block = func.entry_block
        /\ s.layout = Some(from_function(func))

C23_SelectFunctionSelects ==
    [][\A index \in FunctionIndices :
          (index < function_count(Self) /\ Call(select_function(Enter, index))) =>
              SelectsFunction(Self', Self, index)]_vars

(* The same on the documents that satisfy the data-model invariants, from  *)
(* every state.                                                            *)
SelectFunctionSelectsOnValid ==
    (~crashed /\ ValidLoaded) =>
        \A index \in FunctionIndices :
            index < function_count(Self) =>
                /\ SelectsFunction(select_function(Enter, index), Self, index)
                /\ select_function(Enter, index).layouts = 1

(***************************************************************************)
(* C24: with n >= 1 outgoing edges on the current block,                   *)
(* select_next_edge() sets the selected edge s to (s + 1) mod n and        *)
(* select_prev_edge() sets it to (s - 1) mod n (0 wraps to n - 1); with    *)
(* n = 0 both change nothing; neither ever changes the current block, the  *)
(* path or the viewport.                                                   *)
(***************************************************************************)
PrevIndex(sel, n) == IF sel = 0 THEN n - 1 ELSE (sel - 1) % n

(* s is what an edge-selection call that should select edge sel left. *)
CyclesTo(s, sel) ==
    /\ ~s.crashed
    /\ IF OutgoingCount(Self) >= 1
       THEN s.selected_edge = sel
       ELSE Fields(s) = Fields(Self) /\ s.frame = frame
    /\ s.current_block = current_block
    /\ s.path = path
    /\ s.scale = scale /\ s.offset = offset

C24_EdgeSelectionCycles ==
    [][/\ Call(select_next_edge(Enter)) =>
              CyclesTo(Self', (selected_edge + 1) % OutgoingCount(Self))
       /\ Call(select_prev_edge(Enter)) =>
              CyclesTo(Self', PrevIndex(selected_edge, OutgoingCount(Self)))]_vars

(* The same while the document loaded satisfies the data-model invariants, *)
(* from every state.                                                       *)
EdgeSelectionCyclesOnValid ==
    (~crashed /\ (data # None => ValidData(data[1]))) =>
        /\ CyclesTo(select_next_edge(Enter),
                    IF OutgoingCount(Self) = 0 THEN 0
                    ELSE (selected_edge + 1) % OutgoingCount(Self))
        /\ CyclesTo(select_prev_edge(Enter),
                    IF OutgoingCount(Self) = 0 THEN 0
                    ELSE PrevIndex(selected_edge, OutgoingCount(Self)))
        /\ OutgoingCount(Self) = 0 =>
              NoOp(select_next_edge(Enter)) /\ NoOp(select_prev_edge(Enter))

(***************************************************************************)
(* C25: within each layer of the layout the blocks are placed left to      *)
(* right in ascending id order with a constant step of node width +        *)
(* horizontal gap (60 + 80) between consecutive x positions, the row is    *)
(* centered on x = 0 (leftmost x = -(rightmost x + node width)), and every *)
(* node's y is its layer index times the vertical spacing (100).           *)
(***************************************************************************)
C25_RowsAscendingCentered ==
    (layout_result # None /\ layout_func[1].blocks # <<>>) =>
        LET func == layout_func[1]
            nodes == layout_result[1].nodes
            N == Len(func.blocks)
            layer_map == LayerMap(func.entry_block, N, Successors(func))
            Row(l) == {k \in 0..(N - 1) : layer_map[k] = l}
            Adjacent(row, j, k) == j < k /\ ~\E m \in row : j < m /\ m < k
        IN  /\ Len(nodes) = N
            /\ \A k \in 0..(N - 1) : At(nodes, k).y = F(layer_map[k] * 100)
            /\ \A l \in {layer_map[k] : k \in 0..(N - 1)} :
                  LET row == Row(l)
                      leftmost == At(nodes, CHOOSE k \in row : \A m \in row : k <= m)
                      rightmost == At(nodes, CHOOSE k \in row : \A m \in row : m <= k)
                  IN  /\ \A j, k \in row :
                            Adjacent(row, j, k) =>
                                At(nodes, k).x = RAdd(At(nodes, j).x, F(60 + 80))
                      /\ leftmost.x = RSub(F(0), RAdd(rightmost.x, F(60)))

(* The layout of the fan function: blocks 1, 2 and 3 in layer 1 at         *)
(* x = -170, -30 and 110, the entry alone in layer 0 at x = -30.           *)
C25_Witness ==
    /\ layout_result # None
    /\ layout_func = Some(FnFan)
    /\ At(layout_result[1].nodes, 0).x = F(-30) /\ At(layout_result[1].nodes, 0).y = F(0)
    /\ At(layout_result[1].nodes, 1).x = F(-170) /\ At(layout_result[1].nodes, 1).y = F(100)
    /\ At(layout_result[1].nodes, 2).x = F(-30) /\ At(layout_result[1].nodes, 2).y = F(100)
    /\ At(layout_result[1].nodes, 3).x = F(110) /\ At(layout_result[1].nodes, 3).y = F(100)

(***************************************************************************)
(* C26: every layout edge is routed by the layer relation of its           *)
(* endpoints.  If the target's layer is strictly below the source's, the   *)
(* edge has exactly 4 points, from the source's bottom-center to the       *)
(* target's top-center, the two middle points at the average y.  Otherwise *)
(* (same layer, higher layer, or a self-loop) it has exactly 6 points,     *)
(* from the source's bottom-center to the target's bottom-center,          *)
(* detouring through x = max(source x, target x) + width + 30.             *)
(***************************************************************************)
BottomCenter(node) == <<RAdd(node.x, F(30)), RAdd(node.y, F(35))>>
TopCenter(node) == <<RAdd(node.x, F(30)), node.y>>

C26_EdgesRoutedByLayer ==
    (layout_result # None /\ layout_func[1].blocks # <<>>) =>
        LET func == layout_func[1]
            lay == layout_result[1]
            layer_map == LayerMap(func.entry_block, Len(func.blocks), Successors(func))
        IN  \A i \in 1..Len(lay.edges) :
                LET edge == lay.edges[i]
                    src == At(lay.nodes, edge.from)
                    tgt == At(lay.nodes, edge.to)
                    pts == edge.points
                IN  IF layer_map[edge.to] > layer_map[edge.from]
                    THEN LET avg == RDiv(RAdd(RAdd(src.y, F(35)), tgt.y), F(2))
                         IN  /\ Len(pts) = 4
                             /\ pts[1] = BottomCenter(src)
                             /\ pts[2] = <<BottomCenter(src)[1], avg>>
                             /\ pts[3] = <<TopCenter(tgt)[1], avg>>
                             /\ pts[4] = TopCenter(tgt)
                    ELSE LET right_x == RAdd(RMax(src.x, tgt.x), F(60 + 30))
                         IN  /\ Len(pts) = 6
                             /\ pts[1] = BottomCenter(src)
                             /\ pts[6] = BottomCenter(tgt)
                             /\ pts[3][1] = right_x
                             /\ pts[4][1] = right_x

(* The layout of the fan function: the edge 0 -> 3 goes down a layer in 4  *)
(* points, the edge 2 -> 0 goes up and the edge 3 -> 1 stays in layer 1,   *)
(* both in 6 points, the latter detouring through x = 110 + 60 + 30.       *)
C26_Witness ==
    /\ layout_result # None
    /\ layout_func = Some(FnFan)
    /\ Len(layout_result[1].edges[1].points) = 4
    /\ layout_result[1].edges[5].to = 0
    /\ Len(layout_result[1].edges[5].points) = 6
    /\ layout_result[1].edges[6].from = 3 /\ layout_result[1].edges[6].to = 1
    /\ Len(layout_result[1].edges[6].points) = 6
    /\ layout_result[1].edges[6].points[3][1] = F(200)

(***************************************************************************)
(* C27: the layout has exactly one edge per outgoing edge occurrence of    *)
(* the function (parallel edges to the same target are kept as separate    *)
(* layout edges), listed in block order and, within a block, in the order  *)
(* of that block's edge list, each carrying the source block id, target,   *)
(* label and kind of the edge it came from.                                *)
(***************************************************************************)
(* The number of edges the blocks before the k-th (1-based) hold. *)
RECURSIVE EdgesBefore(_, _)
EdgesBefore(func, k) ==
    IF k <= 1 THEN 0
    ELSE EdgesBefore(func, k - 1) + Len(func.blocks[k - 1].terminator.edges)

C27_OneLayoutEdgePerEdge ==
    layout_result # None =>
        LET func == layout_func[1]
            edges == layout_result[1].edges
        IN  /\ Len(edges) = EdgesBefore(func, Len(func.blocks) + 1)
            /\ \A k \in 1..Len(func.blocks) :
                  \A e \in 1..Len(func.blocks[k].terminator.edges) :
                      LET from_doc == func.blocks[k].terminator.edges[e]
                          drawn == edges[EdgesBefore(func, k) + e]
                      IN  /\ drawn.from = func.blocks[k].id
                          /\ drawn.to = from_doc.target
                          /\ drawn.label = from_doc.label
                          /\ drawn.kind = from_doc.kind

(* The layout of the fan function: six edges, the first and the third both *)
(* from block 0 to block 3 with their own label and kind, then the edges   *)
(* of blocks 2 and 3.                                                      *)
C27_Witness ==
    /\ layout_result # None
    /\ layout_func = Some(FnFan)
    /\ Len(layout_result[1].edges) = 6
    /\ layout_result[1].edges[1].to = 3 /\ layout_result[1].edges[1].label = "a"
    /\ layout_result[1].edges[3].to = 3 /\ layout_result[1].edges[3].label = "c"
    /\ layout_result[1].edges[3].kind = "cleanup"
    /\ layout_result[1].edges[5].from = 2
    /\ layout_result[1].edges[6].from = 3

(***************************************************************************)
(* C28: fit_to_view leaves scale and offset untouched when the layout's    *)
(* bounding box has zero width or zero height (empty function); otherwise  *)
(* it sets the scale to min((canvasW - 120)/graphW, (canvasH - 120)/graphH)*)
(* clamped into [0.5, 2.0], also when the canvas is smaller than the       *)
(* padding, and sets the offset so that the bounding-box center maps to    *)
(* the canvas center; it never changes the current block, the selected     *)
(* edge or the path.                                                       *)
(***************************************************************************)
(* screen = graph * scale + offset *)
ToScreen(p, sc, off) == <<RAdd(RMul(p[1], sc), off[1]), RAdd(RMul(p[2], sc), off[2])>>

C28_FitToView ==
    (~crashed /\ layout # None) =>
        LET s == fit_to_view(Enter)
            b == layout[1].bounds
            graphW == RSub(b[3], b[1])
            graphH == RSub(b[4], b[2])
        IN  /\ ~s.crashed
            /\ s.current_block = current_block
            /\ s.selected_edge = selected_edge
            /\ s.path = path
            /\ IF graphW = F(0) \/ graphH = F(0)
               THEN s.scale = scale /\ s.offset = offset
               ELSE LET raw == RMin(RDiv(F(canvas[1] - 120), graphW),
                                    RDiv(F(canvas[2] - 120), graphH))
                        center == <<RDiv(RAdd(b[1], b[3]), F(2)),
                                    RDiv(RAdd(b[2], b[4]), F(2))>>
                    IN  /\ RLt(raw, R(1, 2)) => s.scale = R(1, 2)
                        /\ RLt(F(2), raw) => s.scale = F(2)
                        /\ (RLe(R(1, 2), raw) /\ RLe(raw, F(2))) => s.scale = raw
                        /\ ToScreen(center, s.scale, s.offset) =
                               <<R(canvas[1], 2), R(canvas[2], 2)>>

(* A canvas smaller than the padding, a graph on it zoomed away from the   *)
(* fit: fit_to_view brings the scale back to the lower clamp 0.5 and moves *)
(* the offset.                                                             *)
C28_Witness ==
    /\ ~crashed
    /\ layout # None /\ layout[1].nodes # <<>>
    /\ canvas = <<100, 80>>
    /\ gestures > 0
    /\ scale = R(11, 20)
    /\ fit_to_view(Enter).scale = R(1, 2)
    /\ fit_to_view(Enter).offset # offset

(***************************************************************************)
(* The parts C29 is made of.                                               *)
(***************************************************************************)
Within(x, lo, hi) == RLe(lo, x) /\ RLe(x, hi)

(* A wheel event multiplies the scale by 0.9 (delta_y > 0) or 1.1 and      *)
(* clamps the product into [0.2, 3.0].                                     *)
WheelScales ==
    \A delta_y \in WheelDeltas, m \in MousePositions :
        LET s == handle_wheel(Enter, delta_y, m[1], m[2])
            product == RMul(scale, IF delta_y > 0 THEN R(9, 10) ELSE R(11, 10))
        IN  /\ Within(s.scale, R(1, 5), F(3))
            /\ Within(product, R(1, 5), F(3)) => s.scale = product
            /\ RLt(product, R(1, 5)) => s.scale = R(1, 5)
            /\ RLt(F(3), product) => s.scale = F(3)

(* s, left by a fit, has a scale within [0.5, 2.0] or the scale as it was. *)
Fitted(s) == s.scale # scale => Within(s.scale, R(1, 2), F(2))

KeepsScale(s) == s.scale = scale

(* The operations that neither zoom nor fit nor select. *)
NavigationKeepsScale ==
    /\ \A block_id \in BlockIds : KeepsScale(go_to_block(Enter, block_id))
    /\ KeepsScale(go_back(Enter))
    /\ KeepsScale(reset(Enter))
    /\ \A edge_index \in EdgeIndices : KeepsScale(follow_edge(Enter, edge_index))
    /\ KeepsScale(select_next_edge(Enter))
    /\ KeepsScale(select_prev_edge(Enter))
    /\ \A key \in Keys : KeepsScale(handle_key(Enter, key))
    /\ \A d \in DragDeltas : KeepsScale(handle_drag(Enter, d[1], d[2]))
    /\ KeepsScale(render(Enter))

(***************************************************************************)
(* C29: the scale stays within [0.2, 3.0] in every reachable state: it     *)
(* starts at 1.0, each wheel event multiplies it by 0.9 (delta_y > 0) or   *)
(* 1.1 (otherwise) and clamps the result into [0.2, 3.0], the fit          *)
(* (fit_to_view_internal, run by fit_to_view and by a successful           *)
(* select_function or load) sets it within [0.5, 2.0] or leaves it, and no *)
(* other operation changes it.                                             *)
(***************************************************************************)
C29_ScaleWithinLimits ==
    ~crashed =>
        /\ Within(scale, R(1, 5), F(3))
        /\ \A cv \in FitCanvasSizes : New(cv).scale = F(1)
        /\ WheelScales
        /\ Fitted(fit_to_view(Enter))
        /\ NavigationKeepsScale
        /\ \A index \in FunctionIndices :
              LET s == select_function(Enter, index)
              IN  /\ Fitted(s)
                  /\ (s.crashed \/ index >= function_count(Self)) => KeepsScale(s)
        /\ \A json \in JsonInputs :
              LET s == load_json(Enter, json)
              IN  /\ Fitted(s)
                  /\ s.ret # "ok" => KeepsScale(s)

(* A wheel event has been clamped at 0.2: one more zoom out stays at 0.2,  *)
(* a zoom in gives 0.22, and the load of a document fits the scale to 0.5  *)
(* or more.                                                                *)
C29_Witness ==
    /\ ~crashed
    /\ gestures > 0
    /\ scale = SCALE_MIN
    /\ handle_wheel(Enter, 100, 200, 50).scale = SCALE_MIN
    /\ handle_wheel(Enter, -100, 200, 50).scale = R(11, 50)
    /\ \E json \in JsonInputs :
          /\ load_json(Enter, json).ret = "ok"
          /\ RLe(R(1, 2), load_json(Enter, json).scale)

(***************************************************************************)
(* C30: handle_drag(dx, dy) adds exactly (dx, dy) to the offset with no    *)
(* clamping and leaves the scale unchanged; handle_drag, handle_wheel and  *)
(* fit_to_view never change the selected function, the current block, the *)
(* selected edge, the path or the cached layout.                           *)
(***************************************************************************)
(* Drags short and long, the long ones far beyond any canvas. *)
LongDrags == DragDeltas \cup {<<0, 0>>, <<-100000, 100000>>, <<7, 250000>>}

KeepsNavigation(s) ==
    /\ ~s.crashed
    /\ s.data = data
    /\ s.current_fn_index = current_fn_index
    /\ s.current_block = current_block
    /\ s.selected_edge = selected_edge
    /\ s.path = path
    /\ s.layout = layout /\ s.layouts = 0

C30_DragAddsToOffset ==
    ~crashed =>
        /\ \A d \in LongDrags :
              LET s == handle_drag(Enter, d[1], d[2])
              IN  /\ s.offset = <<RAdd(offset[1], F(d[1])), RAdd(offset[2], F(d[2]))>>
                  /\ s.scale = scale
                  /\ KeepsNavigation(s)
        /\ \A delta_y \in WheelDeltas, m \in MousePositions :
              KeepsNavigation(handle_wheel(Enter, delta_y, m[1], m[2]))
        /\ KeepsNavigation(fit_to_view(Enter))

(* After a gesture, at a scale other than 1, with a path behind and the    *)
(* last of three edges selected: a long drag moves the offset by its       *)
(* deltas.                                                                 *)
C30_Witness ==
    /\ ~crashed
    /\ gestures > 0
    /\ scale # F(1)
    /\ path # <<>>
    /\ selected_edge = 2
    /\ handle_drag(Enter, -100000, 100000).offset =
           <<RSub(offset[1], F(100000)), RAdd(offset[2], F(100000))>>

(***************************************************************************)
(* The frame on the canvas: what Renderer::render drew from the arguments  *)
(* of the last render.                                                     *)
(***************************************************************************)
Rendered == ~crashed /\ frame # None

FrameFunc == At(data[1].functions, frame[1].func)

Drawn ==
    Renderer_render(frame[1].layout, FrameFunc, frame[1].path, frame[1].current,
                    frame[1].selected_edge)

(* The edge is drawn in the selected style. *)
DrawnSelected(i) == Drawn.edges[i].color = EDGE_SELECTED /\ Drawn.edges[i].width = 3

(* The edge is drawn in the taken style. *)
DrawnTaken(i) == Drawn.edges[i].color = EDGE_TAKEN /\ Drawn.edges[i].width = 3

(* The current block of the frame has a selected edge, and its target is t. *)
SelectedTargetIs(t) ==
    LET targets == current_edges(FrameFunc, frame[1].current)
    IN  InRange(targets, frame[1].selected_edge) /\ At(targets, frame[1].selected_edge) = t

(* The pair (a, b) occurs as two consecutive elements of path followed by current. *)
ConsecutiveInTrail(a, b) ==
    LET trail == Append(frame[1].path, frame[1].current)
    IN  \E i \in 1..(Len(trail) - 1) : trail[i] = a /\ trail[i + 1] = b

(***************************************************************************)
(* C31 as stated: in every rendered frame a layout edge is classified as   *)
(* selected exactly when its target equals the target of the current       *)
(* block's selected edge.                                                  *)
(***************************************************************************)
C31_SelectedByTarget ==
    Rendered =>
        \A i \in 1..Len(frame[1].layout.edges) :
            DrawnSelected(i) <=> SelectedTargetIs(frame[1].layout.edges[i].to)

(***************************************************************************)
(* C31, amended: in every rendered frame a layout edge is classified as    *)
(* selected exactly when its source is the current block and its target    *)
(* equals the target of the current block's selected edge; the selected    *)
(* classification takes priority over taken and over the plain per-kind    *)
(* colour, and a Cleanup edge is dashed in every classification.           *)
(***************************************************************************)
C31_SelectedFromCurrent ==
    Rendered =>
        \A i \in 1..Len(frame[1].layout.edges) :
            LET edge == frame[1].layout.edges[i]
                selected == edge.from = frame[1].current /\ SelectedTargetIs(edge.to)
            IN  /\ DrawnSelected(i) <=> selected
                /\ (selected /\ ConsecutiveInTrail(edge.from, edge.to)) => DrawnSelected(i)
                /\ (selected /\ edge.kind = "cleanup") => DrawnSelected(i)
                /\ Drawn.edges[i].dashed <=> edge.kind = "cleanup"

(* A frame of the looping function at block 1 with path [1, 0] and the     *)
(* self-loop 1 -> 1 selected: the edge 0 -> 1 has the same target but      *)
(* another source, and is drawn taken, not selected.                       *)
C31_Witness ==
    /\ Rendered
    /\ FrameFunc = FnLoop
    /\ frame[1].path = <<1, 0>> /\ frame[1].current = 1 /\ frame[1].selected_edge = 0
    /\ frame[1].layout.edges[1].from = 0 /\ frame[1].layout.edges[1].to = 1
    /\ DrawnTaken(1)
    /\ frame[1].layout.edges[2].from = 1 /\ frame[1].layout.edges[2].to = 1
    /\ DrawnSelected(2)

(***************************************************************************)
(* C32: in every rendered frame a layout edge (from, to) is classified as  *)
(* taken exactly when the pair (from, to) occurs as two consecutive        *)
(* elements of the sequence path followed by the current block; with an    *)
(* empty path no edge is taken, and an edge that is both selected and      *)
(* taken is drawn as selected.                                             *)
(***************************************************************************)
C32_TakenIsConsecutiveInTrail ==
    Rendered =>
        \A i \in 1..Len(frame[1].layout.edges) :
            LET edge == frame[1].layout.edges[i]
                taken == is_edge_in_path(edge.from, edge.to, frame[1].path, frame[1].current)
                selected == is_selected(edge, frame[1].current,
                                current_edges(FrameFunc, frame[1].current),
                                frame[1].selected_edge)
            IN  /\ taken <=> ConsecutiveInTrail(edge.from, edge.to)
                /\ frame[1].path = <<>> => ~taken /\ ~DrawnTaken(i)
                /\ DrawnTaken(i) <=> (ConsecutiveInTrail(edge.from, edge.to) /\ ~selected)
                /\ (ConsecutiveInTrail(edge.from, edge.to) /\ selected) => DrawnSelected(i)

(* A frame of the looping function at block 1 with path [1, 0] and the     *)
(* second edge (1 -> 0) selected: 0 -> 1, the step from the top of the     *)
(* path to the current block, is drawn taken; 1 -> 0 is taken and selected *)
(* and drawn selected; the self-loop 1 -> 1 is neither.                    *)
C32_Witness ==
    /\ Rendered
    /\ FrameFunc = FnLoop
    /\ frame[1].path = <<1, 0>> /\ frame[1].current = 1 /\ frame[1].selected_edge = 1
    /\ DrawnTaken(1)
    /\ Drawn.edges[2].color = EDGE_COLOR
    /\ ConsecutiveInTrail(1, 0) /\ DrawnSelected(3)
    /\ DrawnSelected(4) /\ Drawn.edges[4].dashed

(***************************************************************************)
(* C33: in every rendered frame a node is dimmed exactly when the path is  *)
(* non-empty and the node is neither the current block nor on the path;    *)
(* the node fill is chosen by priority current > on-path > default, so the *)
(* current block is never dimmed and with an empty path no node is dimmed. *)
(***************************************************************************)
OnFramePath(id) == \E i \in 1..Len(frame[1].path) : frame[1].path[i] = id

Dimmed(k) == Drawn.nodes[k].alpha # F(1)

C33_DimmedOffThePath ==
    Rendered =>
        \A k \in 1..Len(frame[1].layout.nodes) :
            LET id == frame[1].layout.nodes[k].id
            IN  /\ Dimmed(k) <=>
                      (frame[1].path # <<>> /\ id # frame[1].current /\ ~OnFramePath(id))
                /\ Dimmed(k) => Drawn.nodes[k].alpha = R(35, 100)
                /\ id = frame[1].current =>
                      Drawn.nodes[k].fill = NODE_CURRENT /\ ~Dimmed(k)
                /\ (id # frame[1].current /\ OnFramePath(id)) =>
                      Drawn.nodes[k].fill = NODE_VISITED
                /\ (id # frame[1].current /\ ~OnFramePath(id)) =>
                      Drawn.nodes[k].fill = NODE_BG
                /\ frame[1].path = <<>> => ~Dimmed(k)

(* A frame of the branching function back at block 0 with path [0, 1]:     *)
(* block 0 is current and on the path and drawn current, block 1 is drawn  *)
(* visited, block 2 is off the path and dimmed.                            *)
C33_Witness ==
    /\ Rendered
    /\ FrameFunc = FnBranch
    /\ frame[1].path = <<0, 1>> /\ frame[1].current = 0
    /\ Drawn.nodes[1].fill = NODE_CURRENT /\ ~Dimmed(1)
    /\ Drawn.nodes[2].fill = NODE_VISITED /\ ~Dimmed(2)
    /\ Drawn.nodes[3].fill = NODE_BG /\ Dimmed(3)

(***************************************************************************)
(* C34: for a loaded document satisfying the data-model invariants, in     *)
(* every reachable state the selected function index is below the function *)
(* count, the current block is below the block count of the selected       *)
(* function, and every path entry is below the block count of the selected *)
(* function: the path never holds block ids of a previously selected       *)
(* function or document.                                                   *)
(***************************************************************************)
C34_IndicesInRange ==
    ValidLoaded =>
        /\ current_fn_index < function_count(Self)
        /\ current_block < BlockCount(Self)
        /\ \A i \in 1..Len(path) : path[i] < BlockCount(Self)

(* The second function of a valid document selected and navigated in, two  *)
(* blocks behind; it has fewer blocks than the first.                      *)
C34_Witness ==
    /\ ~crashed
    /\ ValidLoaded
    /\ current_fn_index = 1
    /\ BlockCount(Self) = 2 /\ Len(data[1].functions[1].blocks) = 3
    /\ Len(path) = 2

(***************************************************************************)
(* C35: when go_to_block is never called, in every reachable state the     *)
(* path followed by the current block starts at the entry block of the     *)
(* selected function, and every consecutive pair (a, b) of it is an        *)
(* outgoing edge a -> b of the function with a different from b.           *)
(***************************************************************************)
Trail == path \o <<current_block>>

IsEdgeOf(func, a, b) ==
    /\ InRange(func.blocks, a)
    /\ \E e \in 1..Len(At(func.blocks, a).terminator.edges) :
          At(func.blocks, a).terminator.edges[e].target = b

FunctionSelected == ~crashed /\ data # None /\ current_fn_index < function_count(Self)

C35_TrailIsWalkFromEntry ==
    FunctionSelected =>
        /\ Trail[1] = CurrentFunc(Self).entry_block
        /\ \A i \in 1..Len(path) :
              /\ Trail[i] # Trail[i + 1]
              /\ IsEdgeOf(CurrentFunc(Self), Trail[i], Trail[i + 1])

(* Two edges of the loop function followed from its entry block 1: to      *)
(* block 0 and back to block 1, whose own self-loop left no entry.         *)
C35_Witness ==
    /\ FunctionSelected
    /\ CurrentFunc(Self) = FnLoop
    /\ path = <<1, 0>>
    /\ current_block = 1

(***************************************************************************)
(* C36: the layout computation terminates for every finite FunctionDoc,    *)
(* CFGs with cycles, self-loops and parallel edges included: the           *)
(* breadth-first search gives each block to the queue at most once, and    *)
(* compute_layers returns with each block in exactly one layer.            *)
(***************************************************************************)
ComputeLayersReturned == bfs # None /\ bfs[1].layers # None

EnqueuedAtMostOnce ==
    bfs # None =>
        \A i, j \in 1..Len(bfs[1].pushed) : bfs[1].pushed[i] = bfs[1].pushed[j] => i = j

PlacesIn(layers, id) ==
    UNION {{<<l, p>> : p \in {q \in 1..Len(layers[l]) : layers[l][q] = id}} :
           l \in 1..Len(layers)}

ExactlyOneLayerEach ==
    ComputeLayersReturned =>
        \A id \in 0..(Len(layout_func[1].blocks) - 1) :
            Cardinality(PlacesIn(bfs[1].layers[1], id)) = 1

C36_ComputeLayersTerminates ==
    /\ <>ComputeLayersReturned
    /\ []EnqueuedAtMostOnce
    /\ []ExactlyOneLayerEach

(* compute_layers returned for the loop function (a cycle 0 <-> 1, a       *)
(* self-loop on block 1 and two edges 1 -> 0), each block pushed once.     *)
C36_Witness ==
    /\ ComputeLayersReturned
    /\ layout_func = Some(FnLoop)
    /\ bfs[1].pushed = <<1, 0>>
    /\ bfs[1].layers = Some(<< <<1>>, <<0>> >>)

(***************************************************************************)
(* C37: for every valid FunctionDoc no two distinct node rectangles of the *)
(* layout overlap: two nodes of the same layer are at least the gap of 80  *)
(* apart horizontally, and the rectangles of two nodes of different layers *)
(* are vertically disjoint.                                                *)
(***************************************************************************)
Right(node) == RAdd(node.x, node.width)
Bottom(node) == RAdd(node.y, node.height)

Overlap(a, b) ==
    /\ RLt(a.x, Right(b)) /\ RLt(b.x, Right(a))
    /\ RLt(a.y, Bottom(b)) /\ RLt(b.y, Bottom(a))

HorizontalGap(a, b) ==
    IF RLe(a.x, b.x) THEN RSub(b.x, Right(a)) ELSE RSub(a.x, Right(b))

VerticallyDisjoint(a, b) == RLe(Bottom(a), b.y) \/ RLe(Bottom(b), a.y)

C37_NodesDoNotOverlap ==
    (layout_result # None /\ ValidFunction(layout_func[1])) =>
        LET nodes == layout_result[1].nodes
        IN  \A j, k \in 1..Len(nodes) :
                j # k =>
                    /\ ~Overlap(nodes[j], nodes[k])
                    /\ IF nodes[j].y = nodes[k].y
                       THEN RLe(F(HORIZONTAL_SPACING), HorizontalGap(nodes[j], nodes[k]))
                       ELSE VerticallyDisjoint(nodes[j], nodes[k])

(* The branch function laid out: blocks 1 and 2 side by side with exactly  *)
(* the gap between them, one row below block 0.                            *)
C37_Witness ==
    /\ layout_result # None
    /\ layout_func = Some(FnBranch)
    /\ layout_result[1].nodes[2].y = layout_result[1].nodes[3].y
    /\ HorizontalGap(layout_result[1].nodes[2], layout_result[1].nodes[3])
          = F(HORIZONTAL_SPACING)
    /\ Bottom(layout_result[1].nodes[1]) = F(NODE_HEIGHT)
    /\ layout_result[1].nodes[2].y = F(VERTICAL_SPACING)

(***************************************************************************)
(* C38: before the first successful load, function_count() is 0, the       *)
(* queries function_name, crate_name, get_block_info_json and              *)
(* get_locals_json return nothing, and each of select_function,            *)
(* go_to_block, go_back, reset, follow_edge, select_next_edge and          *)
(* select_prev_edge leaves the state unchanged and draws nothing, for      *)
(* every argument.                                                         *)
(***************************************************************************)
NothingLoaded == ~crashed /\ data = None

C38_InertBeforeLoad ==
    NothingLoaded =>
        /\ function_count(Self) = 0
        /\ \A index \in FunctionIndices : function_name(Self, index) = None
        /\ crate_name(Self) = None
        /\ get_block_info_json(Self) = None
        /\ get_locals_json(Self) = None
        /\ \A index \in FunctionIndices : select_function(Enter, index) = Enter
        /\ \A block_id \in BlockIds : go_to_block(Enter, block_id) = Enter
        /\ go_back(Enter) = Enter
        /\ reset(Enter) = Enter
        /\ \A edge_index \in EdgeIndices : follow_edge(Enter, edge_index) = Enter
        /\ select_next_edge(Enter) = Enter
        /\ select_prev_edge(Enter) = Enter
        /\ frame = None

(* No document yet: a load was refused, and a wheel event has zoomed the   *)
(* empty view.                                                             *)
C38_Witness ==
    /\ NothingLoaded
    /\ ret \in {"err_parse", "err_empty"}
    /\ scale # F(1)
    /\ gestures = 1

(***************************************************************************)
(* C39: detect_loops terminates on every function body, cyclic ones        *)
(* included, and returns exactly the set of blocks from which a path of    *)
(* one or more successor edges leads back to the same block: a block with  *)
(* a self-loop is in it, a block that only leads into a cycle it is not    *)
(* part of is not.                                                         *)
(***************************************************************************)
StepFrom(successors, S) ==
    UNION {{At(successors, b)[e] : e \in 1..Len(At(successors, b))} :
           b \in {x \in S : x < Len(successors)}}

(* The blocks a path of one or more edges reaches from the set S. *)
RECURSIVE ReachedFrom(_, _, _)
ReachedFrom(successors, frontier, reached) ==
    LET next == StepFrom(successors, frontier) \ reached
    IN  IF next = {} THEN reached
        ELSE ReachedFrom(successors, next, reached \cup next)

OnCycle(successors, b) == b \in ReachedFrom(successors, {b}, {})

DetectLoopsReturned == loops # None /\ loops[1].returned

ReturnsBlocksOnCycles ==
    DetectLoopsReturned =>
        loops[1].loop_blocks =
            {b \in 0..(Len(loops[1].successors) - 1) : OnCycle(loops[1].successors, b)}

C39_DetectLoopsExact ==
    /\ <>DetectLoopsReturned
    /\ []ReturnsBlocksOnCycles

(* detect_loops returned for 0 -> 1 -> 2 -> 1, 2 -> 3, 3 -> 3: blocks 1    *)
(* and 2 are on a cycle, block 3 has a self-loop, block 0 only leads in.   *)
C39_Witness ==
    /\ DetectLoopsReturned
    /\ loops[1].successors = BodyLeadIn
    /\ loops[1].loop_blocks = {1, 2, 3}

====
